---------------------------- MODULE Spec2Model ----------------------------
(***************************************************************************)
(* LATC water-meter imputation engine: the per-meter fillers               *)
(* (latc_simple.py, latc_simple_joblib.py, latc_advanced.py) and the       *)
(* smoothers (latc_advanced.smooth_imputed_data,                           *)
(* smooth_fast_numpy.smooth_time_series_numpy).                            *)
(*                                                                         *)
(* A reading is an exact rational: the integer v stands for v / Scale, so  *)
(* that linear interpolation and rolling means are computed exactly.  NaN  *)
(* is a distinguished value; every comparison with NaN is false, as in     *)
(* IEEE arithmetic.                                                        *)
(***************************************************************************)
EXTENDS Integers, Sequences, FiniteSets, TLC

\* ------------------------------------------------------------------ bounds
\* Hourly value columns of a row (24 in production; len(value_columns)).
NCols == 3
\* Daily rows of meter "A" in the input table.
NDays == 2
\* Observed (non-NaN) cells of meter "A" in an input table.
MaxObserved == 2
\* Largest window_size a caller passes to a smoother.
MaxWindow == 5

\* ------------------------------------------------------------------ values
NaN == -999999

RECURSIVE Fact(_)
Fact(n) == IF n <= 1 THEN 1 ELSE n * Fact(n - 1)

\* One raw unit; divisible by every interpolation span and window count.
Scale == Fact(NCols) * Fact(MaxWindow)

\* Raw readings an input cell may hold (in raw units).
RawVals == {-4, 0, 1, 12, 40}

IsNaN(x) == x = NaN
Lt(a, b) == ~IsNaN(a) /\ ~IsNaN(b) /\ a < b
SetMax(S) == CHOOSE x \in S : \A y \in S : y <= x
SetMin(S) == CHOOSE x \in S : \A y \in S : x <= y

Cols == 1..NCols
\* The sequence f as an explicit tuple (TLC otherwise keeps [j \in S |-> e]
\* unevaluated and recomputes e at every application).
AsSeq(f) == f \o <<>>
AnyNaN(M) == \E i \in 1..Len(M) : \E j \in 1..Len(M[i]) : IsNaN(M[i][j])

\* ----------------------------------------------------- pandas primitives
\* interpolate with the trailing gap extrapolated along the last two valid
\* values (fill_value='extrapolate') instead of held at the nearest one.
interpolate_extrapolating(row) ==
  LET valid == {k \in 1..Len(row) : ~IsNaN(row[k])}
  IN AsSeq([j \in 1..Len(row) |->
        IF j \in valid \/ valid = {} THEN row[j]
        ELSE LET lo == {k \in valid : k < j}
                 hi == {k \in valid : k > j}
             IN IF lo = {} THEN row[SetMin(hi)]
                ELSE IF hi = {} THEN
                  LET l == SetMax(lo)
                  IN IF lo = {l} THEN row[l]
                     ELSE LET l2 == SetMax(lo \ {l})
                          IN row[l] + ((row[l] - row[l2]) * (j - l)) \div (l - l2)
                ELSE LET l == SetMax(lo)
                         r == SetMin(hi)
                     IN row[l] + ((row[r] - row[l]) * (j - l)) \div (r - l)])

\* Series.interpolate(method='linear', limit_direction='both') on one row:
\* interior gaps are linear in the column position, leading and trailing
\* gaps take the nearest valid value, a row with no valid value is unchanged.
interpolate(row) ==
  LET valid == {k \in 1..Len(row) : ~IsNaN(row[k])}
  IN AsSeq([j \in 1..Len(row) |->
        IF j \in valid \/ valid = {} THEN row[j]
        ELSE LET lo == {k \in valid : k < j}
                 hi == {k \in valid : k > j}
             IN IF lo = {} THEN row[SetMin(hi)]
                ELSE IF hi = {} THEN row[SetMax(lo)]
                ELSE LET l == SetMax(lo)
                         r == SetMin(hi)
                     IN row[l] + ((row[r] - row[l]) * (j - l)) \div (r - l)])

\* ffill / bfill along a row (axis=1).
ffill_row(row) ==
  AsSeq([j \in 1..Len(row) |->
     LET lo == {k \in 1..j : ~IsNaN(row[k])}
     IN IF lo = {} THEN NaN ELSE row[SetMax(lo)]])

bfill_row(row) ==
  AsSeq([j \in 1..Len(row) |->
     LET hi == {k \in j..Len(row) : ~IsNaN(row[k])}
     IN IF hi = {} THEN NaN ELSE row[SetMin(hi)]])

\* ffill / bfill down the rows (axis=0), column by column.
ffill_axis0(M) ==
  AsSeq([i \in 1..Len(M) |-> AsSeq([j \in 1..Len(M[i]) |->
     LET lo == {k \in 1..i : ~IsNaN(M[k][j])}
     IN IF lo = {} THEN NaN ELSE M[SetMax(lo)][j]])])

bfill_axis0(M) ==
  AsSeq([i \in 1..Len(M) |-> AsSeq([j \in 1..Len(M[i]) |->
     LET hi == {k \in i..Len(M) : ~IsNaN(M[k][j])}
     IN IF hi = {} THEN NaN ELSE M[SetMin(hi)][j]])])

fillna(M, c) ==
  AsSeq([i \in 1..Len(M) |-> AsSeq([j \in 1..Len(M[i]) |->
     IF IsNaN(M[i][j]) THEN c ELSE M[i][j]])])

MapRows(Op(_), M) == AsSeq([i \in 1..Len(M) |-> Op(M[i])])

\* The in-place clamp loop over one row:
\*   for j in range(1, n): if x[j] < x[j-1]: x[j] = x[j-1]
RECURSIVE enforce_prefix(_, _)
enforce_prefix(row, n) ==
  IF n = 0 THEN <<>>
  ELSE IF n = 1 THEN <<row[1]>>
  ELSE LET p == enforce_prefix(row, n - 1)
       IN Append(p, IF Lt(row[n], p[n - 1]) THEN p[n - 1] ELSE row[n])

\* A clamp that compares every value with its predecessor as it was before
\* the loop, not with the clamped one.
enforce_row_not_in_place(row) ==
  AsSeq([j \in 1..Len(row) |->
     IF j > 1 /\ Lt(row[j], row[j - 1]) THEN row[j - 1] ELSE row[j]])

enforce_row(row) == enforce_prefix(row, Len(row))

\* ------------------------------------------------------------ the table
Meters == {"A", "B"}

\* df['id'].unique(): the ids in order of first appearance.
unique(ids) ==
  LET firsts == SelectSeq(AsSeq([k \in 1..Len(ids) |-> k]),
                          LAMBDA k : \A q \in 1..(k - 1) : ids[q] # ids[k])
  IN AsSeq([r \in 1..Len(firsts) |-> ids[firsts[r]]])

unique_ids(df) == unique(AsSeq([k \in 1..Len(df) |-> df[k].id]))

\* df[df['id'] == meter_id]: the meter's rows, in table order.
RowsOf(df, m) == SelectSeq(df, LAMBDA r : r.id = m)
MatrixOf(rows) == AsSeq([k \in 1..Len(rows) |-> rows[k].vals])
SetVals(rows, M) == AsSeq([k \in 1..Len(rows) |-> [rows[k] EXCEPT !.vals = M[k]]])

\* pd.concat(batches, ignore_index=True): the rows of the first block, then
\* those of the second, and so on.  The blocks are laid out on a grid one
\* block per line and the grid is read line by line.
concat(batches) ==
  LET width == SetMax({Len(batches[b]) : b \in 1..Len(batches)} \cup {0})
      block(g) == ((g - 1) \div width) + 1
      place(g) == ((g - 1) % width) + 1
      cells == SelectSeq(AsSeq([g \in 1..(Len(batches) * width) |-> g]),
                         LAMBDA g : place(g) <= Len(batches[block(g)]))
  IN AsSeq([k \in 1..Len(cells) |-> batches[block(cells[k])][place(cells[k])]])

\* ------------------------------------------------------- latc_simple.py
\* The per-meter body without step 3 (the final fillna(0)).
SimpleFill_no_fillna(meter_matrix, enforce) ==
  LET t1 == IF AnyNaN(meter_matrix) THEN MapRows(interpolate, meter_matrix)
            ELSE meter_matrix
      t2 == MapRows(bfill_row, MapRows(ffill_row, t1))
      t3 == IF AnyNaN(t2) THEN bfill_axis0(ffill_axis0(t2)) ELSE t2
  IN IF enforce THEN MapRows(enforce_row, t3) ELSE t3

\* Steps 1-4 of the per-meter body of simple_latc_imputation.
SimpleFill(meter_matrix, enforce) ==
  LET t1 == IF AnyNaN(meter_matrix) THEN MapRows(interpolate, meter_matrix)
            ELSE meter_matrix
      t2 == MapRows(bfill_row, MapRows(ffill_row, t1))
      t3 == IF AnyNaN(t2) THEN bfill_axis0(ffill_axis0(t2)) ELSE t2
      t4 == fillna(t3, 0)
  IN IF enforce THEN MapRows(enforce_row, t4) ELSE t4

\* The loop body filling the whole table before it takes the meter's rows.
SimpleMeter_whole_table(df, m, enforce) ==
  RowsOf(SetVals(df, SimpleFill(MatrixOf(df), enforce)), m)

\* One iteration of the loop over unique_ids.
SimpleMeter(df, m, enforce) ==
  LET meter_data == RowsOf(df, m)
  IN SetVals(meter_data, SimpleFill(MatrixOf(meter_data), enforce))

\* Lines 46-92 of simple_latc_imputation: the loop and the concat.
simple_latc_imputation(df, enforce) ==
  LET ids == unique_ids(df)
  IN concat(AsSeq([k \in 1..Len(ids) |-> SimpleMeter(df, ids[k], enforce)]))

\* _legacy_imputation: every row of the table in one matrix.
_legacy_imputation(df, enforce) ==
  SetVals(df, SimpleFill(MatrixOf(df), enforce))

\* ----------------------------------------------------- latc_advanced.py
\* Insertion sort of a sequence of numbers (for the rolling median).
RECURSIVE insert_sorted(_, _)
insert_sorted(s, x) ==
  IF s = <<>> THEN <<x>>
  ELSE IF x <= Head(s) THEN <<x>> \o s
  ELSE <<Head(s)>> \o insert_sorted(Tail(s), x)

RECURSIVE sort_seq(_)
sort_seq(s) == IF s = <<>> THEN <<>> ELSE insert_sorted(sort_seq(Tail(s)), Head(s))

\* The first and last position of the centered fixed window of width w at
\* position j (pandas FixedWindowIndexer: offset = (w - 1) // 2).
WinLo(j, w) == j + ((w - 1) \div 2) - w + 1
WinHi(j, w) == j + ((w - 1) \div 2)
WinVals(row, j, w) ==
  SelectSeq(SubSeq(row, IF WinLo(j, w) < 1 THEN 1 ELSE WinLo(j, w),
                        IF WinHi(j, w) > Len(row) THEN Len(row) ELSE WinHi(j, w)),
            LAMBDA x : ~IsNaN(x))

\* Twice the rolling median (window w, center=True, min_periods=1) at every
\* position of a row; NaN where the window holds no valid value.
rolling_median2(row, w) ==
  AsSeq([j \in 1..Len(row) |->
     LET v == sort_seq(WinVals(row, j, w))
         n == Len(v)
     IN IF n = 0 THEN NaN
        ELSE IF n % 2 = 1 THEN 2 * v[(n + 1) \div 2]
        ELSE v[n \div 2] + v[n \div 2 + 1]])

RECURSIVE SeqSum(_)
SeqSum(s) == IF s = <<>> THEN 0 ELSE Head(s) + SeqSum(Tail(s))

\* Series.rolling(window=w, center=True, min_periods=1).mean()
rolling_mean(row, w) ==
  AsSeq([j \in 1..Len(row) |->
     LET v == WinVals(row, j, w)
     IN IF Len(v) = 0 THEN NaN ELSE SeqSum(v) \div Len(v)])

\* The constants of the cleaning step.
SpikeWindow == 5
SpikeMedianFloor == 10

\* consumption_matrix[consumption_matrix == 0] = np.nan
clean_zeros(M) ==
  AsSeq([i \in 1..Len(M) |-> AsSeq([j \in 1..Len(M[i]) |->
     IF M[i][j] = 0 THEN NaN ELSE M[i][j]])])

\* is_spike = (value > median * 1.25) & (median > 10); m2 is twice the median.
is_spike(v, m2) ==
  /\ ~IsNaN(v) /\ ~IsNaN(m2)
  /\ 8 * v > 5 * m2
  /\ m2 > 2 * SpikeMedianFloor * Scale

\* A spike filter that writes the rolling median over spikes and gaps alike.
filter_spikes_row_to_median(row) ==
  LET m2 == rolling_median2(row, SpikeWindow)
  IN AsSeq([j \in 1..Len(row) |->
        IF (IsNaN(row[j]) \/ is_spike(row[j], m2[j])) /\ ~IsNaN(m2[j]) /\ m2[j] % 2 = 0
          THEN m2[j] \div 2 ELSE row[j]])

filter_spikes_row(row) ==
  LET m2 == rolling_median2(row, SpikeWindow)
  IN AsSeq([j \in 1..Len(row) |-> IF is_spike(row[j], m2[j]) THEN NaN ELSE row[j]])

filter_spikes(M) == MapRows(filter_spikes_row, M)

\* The drop filter on one column, rows 1..n done (the loop writes in place, so
\* row i is compared with the already filtered row i-1):
\*   if curr < prev: ratio = curr / prev if prev > 0 else 0
\*                   if ratio > 0.1: curr = nan
RECURSIVE drop_prefix(_, _)
drop_prefix(col, n) ==
  IF n = 0 THEN <<>>
  ELSE IF n = 1 THEN <<col[1]>>
  ELSE LET p == drop_prefix(col, n - 1)
           prev == p[n - 1]
           curr == col[n]
       IN Append(p, IF Lt(curr, prev) /\ prev > 0 /\ 10 * curr > prev
                    THEN NaN ELSE curr)

filter_drops(M) ==
  LET column(j) == AsSeq([i \in 1..Len(M) |-> M[i][j]])
      done(j) == drop_prefix(column(j), Len(M))
  IN IF Len(M) = 0 THEN M
     ELSE LET cols == AsSeq([j \in 1..Len(M[1]) |-> done(j)])
          IN AsSeq([i \in 1..Len(M) |-> AsSeq([j \in 1..Len(M[i]) |-> cols[j][i]])])

\* Lines 239-277 of _legacy_svd_imputation: the cleaning step.
clean(M) == filter_drops(filter_spikes(clean_zeros(M)))

\* mask = ~np.isnan(consumption_matrix)
mask_of(M) == {c \in (1..Len(M)) \X Cols : ~IsNaN(M[c[1]][c[2]])}

\* Phase 1 without the vertical fill.
initial_fill_rows_only(M) == MapRows(interpolate, M)

\* Lines 284-292: the Phase 1 estimate.
initial_fill(M) ==
  LET t1 == MapRows(interpolate, M)
  IN IF AnyNaN(t1) THEN bfill_axis0(ffill_axis0(t1)) ELSE t1

\* n_components (default) and rank = min(n_components, min(shape) - 1).
n_components == 50
rank_of(M) ==
  LET m == (IF Len(M) < NCols THEN Len(M) ELSE NCols) - 1
  IN IF n_components < m THEN n_components ELSE m

\* What U @ diag(s) @ Vt of scipy's svds holds: the decomposition is a
\* library routine, so its result is modelled as one matrix out of a small
\* family, named by pick (constant low, constant negative, descending along
\* the row); a matrix with a NaN decomposes into NaN.  The truncated
\* decomposition is taken as a function of the matrix it is given (the
\* solver's random start vector is not modelled): the same matrix with the
\* same pick gives the same result.
ReconPicks == {"low", "negative", "ramp"}
Recon(M, pick) ==
  AsSeq([i \in 1..Len(M) |-> AsSeq([j \in Cols |->
     IF AnyNaN(M) THEN NaN
     ELSE IF pick = "ramp" THEN (NCols + 1 - j) * Scale
     ELSE IF pick = "low" THEN 5 * Scale
     ELSE (-2) * Scale])])
ReconSet(M) == {Recon(M, pick) : pick \in ReconPicks}

\* An update that takes the whole reconstruction.
update_everywhere(imputed, mask, reconstructed) == reconstructed

\* imputed_matrix[~mask] = reconstructed[~mask]
update_missing(imputed, mask, reconstructed) ==
  AsSeq([i \in 1..Len(imputed) |-> AsSeq([j \in Cols |->
     IF <<i, j>> \in mask THEN imputed[i][j] ELSE reconstructed[i][j]])])

\* diff < tolerance, for a tolerance below every non-zero relative change the
\* model's values can show: the two estimates are equal and the norm of the
\* new one is a non-zero number.
converged(imputed, prev) ==
  /\ ~AnyNaN(imputed)
  /\ imputed = prev
  /\ \E i \in 1..Len(imputed) : \E j \in Cols : imputed[i][j] # 0

\* imputed_matrix[mask] = original_matrix[mask]
restore_known(imputed, mask, original) ==
  AsSeq([i \in 1..Len(imputed) |-> AsSeq([j \in Cols |->
     IF <<i, j>> \in mask THEN original[i][j] ELSE imputed[i][j]])])

\* np.maximum(imputed_matrix, 0): NaN stays NaN.
clamp_nonneg(M) ==
  AsSeq([i \in 1..Len(M) |-> AsSeq([j \in 1..Len(M[i]) |->
     IF Lt(M[i][j], 0) THEN 0 ELSE M[i][j]])])

\* --------------------------------------------------- smooth_imputed_data
Methods == {"moving_avg", "spline", "savgol"}

\* Series.interpolate(method='linear') with the default forward direction:
\* leading gaps stay, interior gaps are linear, trailing gaps take the last
\* valid value.
interpolate_forward(row) ==
  LET both == interpolate(row)
  IN AsSeq([j \in 1..Len(row) |->
        IF \E k \in 1..j : ~IsNaN(row[k]) THEN both[j] ELSE NaN])

\* What a library kernel (UnivariateSpline, savgol_filter) does with a row is
\* a choice: it returns the row itself, the row lowered by one unit, the row
\* with alternating +1 / -1 unit ripples (NaN stays NaN), or it raises.
KernelChoices == {"same", "lower", "ripple", "raise"}
\* The outcome "the kernel raised" (no row is empty).
Raised == <<>>
kernel(row, k) ==
  IF k = "raise" THEN Raised
  ELSE IF k = "same" THEN row
  ELSE AsSeq([j \in 1..Len(row) |->
         IF IsNaN(row[j]) THEN NaN
         ELSE IF k = "lower" \/ j % 2 = 0 THEN row[j] - Scale
         ELSE row[j] + Scale])

CountValid(row) == Cardinality({j \in 1..Len(row) : ~IsNaN(row[j])})

\* Lines 59-92: smoothed_row for one row, or Raised; k is the kernel's choice.
smoothed_row_of(row, method, window_size, k) ==
  IF method = "moving_avg" THEN rolling_mean(row, window_size)
  ELSE IF method = "spline" THEN
    IF CountValid(row) > 3 THEN kernel(row, k) ELSE row
  ELSE IF method = "savgol" THEN
    LET w0 == IF window_size % 2 = 0 THEN window_size + 1 ELSE window_size
        row_filled == IF \E j \in 1..Len(row) : IsNaN(row[j])
                        THEN ffill_row(bfill_row(interpolate_forward(row)))
                        ELSE row
        w1 == IF w0 < Len(row) THEN w0 ELSE Len(row)
        actual_window == IF w1 % 2 = 0 THEN w1 - 1 ELSE w1
    IN IF actual_window >= 5 THEN kernel(row_filled, k) ELSE row_filled
  ELSE Raised

\* Whether lines 59-92 reach a library kernel on a row of n values.
uses_kernel(n, method, window_size) ==
  \/ method = "spline" /\ n > 3
  \/ /\ method = "savgol"
     /\ LET w0 == IF window_size % 2 = 0 THEN window_size + 1 ELSE window_size
            w1 == IF w0 < n THEN w0 ELSE n
        IN (IF w1 % 2 = 0 THEN w1 - 1 ELSE w1) >= 5

\* The kernels' choices over the rows of one smooth_imputed_data call.
RECURSIVE KernelRuns(_, _)
KernelRuns(n_rows, used) ==
  IF n_rows = 0 THEN {<<>>}
  ELSE {Append(ks, k) : ks \in KernelRuns(n_rows - 1, used),
                        k \in (IF used THEN KernelChoices ELSE {"same"})}

\* Lines 94-102: write a smoothed row back.
write_back(smoothed_row, original_row, preserve) ==
  LET merged == AsSeq([j \in 1..Len(original_row) |->
                   IF IsNaN(original_row[j]) THEN smoothed_row[j]
                   ELSE original_row[j]])
  IN IF preserve THEN enforce_row(merged) ELSE merged

\* A loop whose except branch blanks the row's imputed positions instead of
\* keeping the imputed row.
smooth_row_blanking(imputed_row, original_row, method, window_size, preserve, k) ==
  IF \A j \in 1..Len(original_row) : ~IsNaN(original_row[j])
    THEN imputed_row
    ELSE LET o == smoothed_row_of(imputed_row, method, window_size, k)
         IN IF o = Raised THEN original_row
            ELSE write_back(o, original_row, preserve)

\* A loop whose except branch still writes the observed values back.
smooth_row_writing_back(imputed_row, original_row, method, window_size, preserve, k) ==
  IF \A j \in 1..Len(original_row) : ~IsNaN(original_row[j])
    THEN imputed_row
    ELSE LET o == smoothed_row_of(imputed_row, method, window_size, k)
         IN write_back(IF o = Raised THEN imputed_row ELSE o, original_row, preserve)

\* One iteration of the loop over rows (lines 49-108): the row
\* smoothed_matrix[i] holds afterwards.
smooth_row(imputed_row, original_row, method, window_size, preserve, k) ==
  IF \A j \in 1..Len(original_row) : ~IsNaN(original_row[j])
    THEN imputed_row
    ELSE LET o == smoothed_row_of(imputed_row, method, window_size, k)
         IN IF o = Raised THEN imputed_row
            ELSE write_back(o, original_row, preserve)

\* Whether that iteration ends in the except branch (lines 104-108).
row_raises(imputed_row, original_row, method, window_size, k) ==
  /\ \E j \in 1..Len(original_row) : IsNaN(original_row[j])
  /\ smoothed_row_of(imputed_row, method, window_size, k) = Raised

\* smooth_imputed_data, the kernel's choice for row i being ks[i].
smooth_imputed_data(imputed, original, method, window_size, preserve, ks) ==
  AsSeq([i \in 1..Len(imputed) |->
     smooth_row(imputed[i], original[i], method, window_size, preserve, ks[i])])

\* Lines 341-370 of _legacy_svd_imputation: Phase 3.
\* Phase 3 without the final np.maximum(imputed_matrix, 0).
post_process_unclamped(imputed, mask, original, enforce, smoothing, method, window_size, ks) ==
  LET restored == restore_known(imputed, mask, original)
      mono == IF enforce THEN MapRows(enforce_row, restored) ELSE restored
  IN IF smoothing
       THEN smooth_imputed_data(mono, original, method, window_size, enforce, ks)
       ELSE mono

post_process(imputed, mask, original, enforce, smoothing, method, window_size, ks) ==
  LET restored == restore_known(imputed, mask, original)
      mono == IF enforce THEN MapRows(enforce_row, restored) ELSE restored
      smoothed == IF smoothing
                    THEN smooth_imputed_data(mono, original, method, window_size,
                                             enforce, ks)
                    ELSE mono
  IN clamp_nonneg(smoothed)

\* Lines 306-335: the refinement loop from pass `iteration` on, svds taking
\* picks[t] in pass t and raising once picks is used up.
RECURSIVE svd_refine(_, _, _, _, _, _)
svd_refine(imputed, mask, prev, iteration, max_it, picks) ==
  IF iteration >= max_it THEN imputed
  ELSE IF iteration + 1 > Len(picks) \/ rank_of(imputed) < 1 THEN imputed
  ELSE LET new == update_missing(imputed, mask, Recon(imputed, picks[iteration + 1]))
       IN IF iteration > 0 /\ converged(new, prev) THEN new
          ELSE svd_refine(new, mask, new, iteration + 1, max_it, picks)

\* _legacy_svd_imputation on the rows it is handed; opts is the record of the
\* options, picks and ks the library routines' choices.
_legacy_svd_imputation(rows, opts, picks, ks) ==
  LET original == MatrixOf(rows)
      consumption_matrix == clean(original)
      known == mask_of(consumption_matrix)
      refined == svd_refine(initial_fill(consumption_matrix), known, <<>>, 0,
                            opts.max_iterations, picks)
  IN SetVals(rows, post_process(refined, known, original, opts.enforce,
                                opts.smoothing, opts.method, opts.window, ks))

\* Lines 157-179 of latc_svd_imputation: every meter on its own, then concat;
\* picks[m] and ks[m] are the library's choices while meter m is processed.
latc_svd_imputation(df, opts, picks, ks) ==
  LET ids == unique_ids(df)
  IN concat(AsSeq([k \in 1..Len(ids) |->
        _legacy_svd_imputation(RowsOf(df, ids[k]), opts, picks[ids[k]], ks[ids[k]])]))

\* ------------------------------------------------- smooth_fast_numpy.py
\* np.maximum.accumulate: the running maximum; a NaN propagates.
RECURSIVE maximum_accumulate_prefix(_, _)
maximum_accumulate_prefix(x, n) ==
  IF n = 0 THEN <<>>
  ELSE IF n = 1 THEN <<x[1]>>
  ELSE LET p == maximum_accumulate_prefix(x, n - 1)
       IN Append(p, IF IsNaN(p[n - 1]) \/ IsNaN(x[n]) THEN NaN
                    ELSE IF x[n] < p[n - 1] THEN p[n - 1] ELSE x[n])

maximum_accumulate(x) == maximum_accumulate_prefix(x, Len(x))

\* ravel() of a meter's block and reshape back.
ravel(M) == concat(M)
reshape(flat, nrows, ncols) ==
  AsSeq([i \in 1..nrows |-> SubSeq(flat, (i - 1) * ncols + 1, i * ncols)])

\* Lines 95-133: one meter's block.
smooth_meter(meter_imputed, meter_original, window_size) ==
  LET meter_flat_imp == ravel(meter_imputed)
      meter_flat_orig == ravel(meter_original)
      s_smooth == IF Len(meter_flat_imp) >= window_size
                    THEN maximum_accumulate(rolling_mean(meter_flat_imp, window_size))
                    ELSE meter_flat_imp
      final_flat == AsSeq([k \in 1..Len(meter_flat_orig) |->
                      IF IsNaN(meter_flat_orig[k]) THEN s_smooth[k]
                      ELSE meter_flat_orig[k]])
  IN reshape(final_flat, Len(meter_imputed), NCols)

\* smooth_time_series_numpy(df, value_columns, original_df, window_size):
\* row k of original_df belongs to row k of df; every row takes its meter's
\* smoothed block row.
smooth_time_series_numpy(filled, original_df, window_size) ==
  LET positions(m) == SelectSeq(AsSeq([k \in 1..Len(filled) |-> k]),
                                LAMBDA k : filled[k].id = m)
      block(m) ==
        LET pos == positions(m)
        IN smooth_meter(AsSeq([q \in 1..Len(pos) |-> filled[pos[q]].vals]),
                        AsSeq([q \in 1..Len(pos) |-> original_df[pos[q]].vals]),
                        window_size)
      place(k) ==
        LET pos == positions(filled[k].id)
            q == CHOOSE q \in 1..Len(pos) : pos[q] = k
        IN block(filled[k].id)[q]
  IN AsSeq([k \in 1..Len(filled) |-> [filled[k] EXCEPT !.vals = place(k)]])

\* latc_app.py: df_to_smooth.sort_values(by=['id', 'data']).
MeterRank(m) == IF m = "A" THEN 1 ELSE 2
RowLe(r1, r2) ==
  \/ MeterRank(r1.id) < MeterRank(r2.id)
  \/ r1.id = r2.id /\ r1.data <= r2.data

RECURSIVE insert_row(_, _)
insert_row(rows, r) ==
  IF rows = <<>> THEN <<r>>
  ELSE IF RowLe(Head(rows), r) THEN <<Head(rows)>> \o insert_row(Tail(rows), r)
  ELSE <<r>> \o rows

RECURSIVE sort_values(_)
sort_values(rows) ==
  IF rows = <<>> THEN <<>>
  ELSE insert_row(sort_values(SubSeq(rows, 1, Len(rows) - 1)), rows[Len(rows)])

\* latc_app.py: pd.merge(df_to_smooth[['id','data']], df_original, how='left'):
\* for every row of df_to_smooth, the original row of the same (id, data).
merge_left(df_to_smooth, df_original) ==
  AsSeq([k \in 1..Len(df_to_smooth) |->
     LET hit == {q \in 1..Len(df_original) :
                   /\ df_original[q].id = df_to_smooth[k].id
                   /\ df_original[q].data = df_to_smooth[k].data}
     IN df_original[CHOOSE q \in hit : TRUE]])

\* ----------------------------------------------- latc_simple_joblib.py
\* _process_meter_joblib: the same four steps as the sequential body.
_process_meter_joblib(meter_matrix, enforce) == SimpleFill(meter_matrix, enforce)

\* Lines 106-117: result_df = df.copy(), then every meter's rows replaced in
\* place by its imputed matrix.
joblib_reconstruct(df, enforce) ==
  AsSeq([k \in 1..Len(df) |->
     LET pos == SelectSeq(AsSeq([q \in 1..Len(df) |-> q]),
                          LAMBDA q : df[q].id = df[k].id)
         imputed == _process_meter_joblib(MatrixOf(RowsOf(df, df[k].id)), enforce)
         q == CHOOSE q \in 1..Len(pos) : pos[q] = k
     IN [df[k] EXCEPT !.vals = imputed[q]]])

\* ------------------------------------------------- the progress callback
\* int(k / n * scale) in double arithmetic.  The quotient is rounded before
\* it is multiplied, so a product that is a whole number in exact arithmetic
\* can come out just below it (29 / 100 * 100 gives 28) unless the quotient is
\* a dyadic fraction, which is exact.
RECURSIVE gcd(_, _)
gcd(a, b) == IF b = 0 THEN a ELSE gcd(b, a % b)
RECURSIVE is_power_of_two(_)
is_power_of_two(n) == n = 1 \/ (n % 2 = 0 /\ is_power_of_two(n \div 2))
int_of_scaled_ratio(k, n, scale) ==
  LET q == (k * scale) \div n
  IN IF (k * scale) % n = 0 /\ ~is_power_of_two(n \div gcd(k, n))
       THEN {q - 1, q} ELSE {q}

\* latc_simple.py lines 52-56: at every hundredth meter but the first the
\* callback is told int(100 * idx / len(unique_ids)), idx counting from 0.
\* The product is a whole number and one division of whole numbers is
\* rounded correctly, so the result is the exact floor.
simple_progress(calls, idx, n_ids, progress_callback) ==
  IF idx % 100 = 0 /\ progress_callback /\ idx > 0
    THEN Append(calls, (100 * idx) \div n_ids) ELSE calls

\* A callback told the share of the first fifty meters done.
svd_progress_per_fifty(calls, idx, n_ids, progress_callback) ==
  IF progress_callback /\ idx % 50 = 0 /\ idx > 0
    THEN Append(calls, (80 * idx) \div 50) ELSE calls

\* latc_advanced.py lines 173-176: after every fiftieth meter but the first
\* the callback is told int(80 * idx / len(unique_ids)).
svd_progress(calls, idx, n_ids, progress_callback) ==
  IF progress_callback /\ idx % 50 = 0 /\ idx > 0
    THEN Append(calls, (80 * idx) \div n_ids) ELSE calls

\* latc_advanced.py lines 320-328: in a pass after the first, when verbose is
\* on and the pass number is even, the callback is told
\* 40 + int(40 * (iteration / max_iterations)).
iteration_progress(calls, iteration, max_iterations, progress_callback, verbose) ==
  IF iteration > 0 /\ verbose /\ iteration % 2 = 0 /\ progress_callback
    THEN {Append(calls, 40 + p) :
            p \in int_of_scaled_ratio(iteration, max_iterations, 40)}
    ELSE {calls}

\* ------------------------------------------------------------- the state
VARIABLES
  fn,                    \* the entry point called
  has_id,                \* whether the table has an 'id' column
  df,                    \* the input table: rows [id, data, vals]
  enforce_monotonicity,  \* the option of the same name
  pc,                    \* position in the call
  idx,                   \* loop index into unique_ids (1-based)
  processed_batches,     \* per-meter results so far
  result,                \* the returned table, or NoResult
  smoothed,              \* what smooth_time_series_numpy returned, or NoResult
  apply_smoothing,       \* options of latc_svd_imputation
  smoothing_method,
  smoothing_window,
  max_iterations,
  meter_df,              \* the rows _legacy_svd_imputation was called with
  original_matrix,       \* its locals of the same names
  consumption_matrix,
  mask,
  imputed_matrix,
  prev_imputed,
  iteration,
  other_df,              \* a second table holding the same rows for meter "A"
  other_result,          \* what the same call returns for it
  smoothed_matrix,       \* smooth_imputed_data's local of the same name
  preserve_monotonicity, \* its option of the same name
  raised_rows,           \* rows of smooth_imputed_data whose except branch ran
  svds_calls,            \* outcomes of the svds calls of the current
                         \* _legacy_svd_imputation call, in order
  gap_threshold_hours,   \* latc_hybrid_imputation's option of the same name
  small_gaps,            \* its locals of the same names: <<row, start, end>>
  large_gaps,
  gaps,                  \* analyze_gaps: the gap lengths of the row just scanned
  meter_stats,           \* analyze_gaps: its list of the same name
  n_workers,             \* the option of the parallel variants
  progress_callback,     \* whether the call was given a progress callback
  verbose,               \* the option of the same name
  id_chunks,             \* the work units handed to the workers, in order
  futures,               \* per work unit: <<>> while pending, <<value>> when done
  progress_calls,        \* the percents progress_callback was called with
  processing_mode,       \* latc_gui.py: the mode picked, "fast" or "scientific"
  original_exists,       \* whether the original file is there
  output_exists,         \* whether data/imputed_consumption_full.csv is there
  script_found,          \* whether run_script finds the script
  current_progress_file, \* the GUI's attribute of the same name, or "unset"
  env_progress_file,     \* LATC_PROGRESS_FILE as the script gets it, or "unset"
  gui_pc,                \* position in run_imputation_logic
  proc,                  \* how far the script is
  progress_files,        \* per path: the percent in the file, or Absent
  progress_bar,          \* progress_bar['value']
  timer,                 \* whether _check_progress is armed
  polls,                 \* timer callbacks run so far, up to MaxPolls
  script_log             \* what the thread logged when the script ended

callVars == <<fn, has_id, df, enforce_monotonicity>>
svdOpts == <<apply_smoothing, smoothing_method, smoothing_window, max_iterations>>
svdLocals == <<meter_df, original_matrix, consumption_matrix, mask, imputed_matrix,
               prev_imputed, iteration>>
otherVars == <<other_df, other_result, smoothed_matrix, preserve_monotonicity>>
history == <<raised_rows, svds_calls>>
hybridVars == <<gap_threshold_hours, small_gaps, large_gaps>>
\* The variables of the entry points other than the imputation calls.
gapVars == <<gaps, meter_stats>>
parOpts == <<n_workers, progress_callback, verbose>>
parVars == <<parOpts, id_chunks, futures, progress_calls>>
guiVars == <<processing_mode, original_exists, output_exists, script_found,
             current_progress_file, env_progress_file, gui_pc, proc, progress_files,
             progress_bar, timer, polls, script_log>>
entryVars == <<hybridVars, gapVars, parVars, guiVars>>
\* What an entry point leaves alone of the other entry points' variables.
besideHybrid == <<gapVars, parVars, guiVars>>
besideGaps == <<hybridVars, parVars, guiVars>>
besidePar == <<hybridVars, gapVars, guiVars>>
besideProgress == <<hybridVars, gapVars, guiVars, parOpts, id_chunks, futures>>
vars == <<fn, has_id, df, enforce_monotonicity, pc, idx, processed_batches,
          result, smoothed, svdOpts, svdLocals, otherVars, history, entryVars>>

NoResult == <<>>

\* ------------------------------------------------------------- inputs
CellsA == (1..NDays) \X Cols
ObsSets == {S \in SUBSET CellsA : Cardinality(S) <= MaxObserved}
MatrixFrom(S, f) ==
  AsSeq([d \in 1..NDays |-> AsSeq([j \in Cols |->
     IF <<d, j>> \in S THEN f[<<d, j>>] * Scale ELSE NaN])])
InputMatricesA == UNION {{MatrixFrom(S, f) : f \in [S -> RawVals]} : S \in ObsSets}

\* Meter B has one row, holding a reading far above every reading of A.
InputRowB == AsSeq([j \in Cols |-> 90 * Scale])

\* The table: A's days in order, B's row inserted after A's day p.
Table(MA, rb, p) ==
  LET rowA(d) == [id |-> "A", data |-> d, vals |-> MA[d]]
      rowB == [id |-> "B", data |-> 1, vals |-> rb]
  IN AsSeq([k \in 1..(NDays + 1) |->
        IF k <= p THEN rowA(k) ELSE IF k = p + 1 THEN rowB ELSE rowA(k - 1)])

InputTables == {Table(MA, InputRowB, p) : MA \in InputMatricesA, p \in 0..NDays}

\* The svd options and locals of a call that has none.
NoSvdOpts ==
  /\ apply_smoothing = FALSE
  /\ smoothing_method = "savgol"
  /\ smoothing_window = MaxWindow
  /\ max_iterations = 0
NoSvdLocals ==
  /\ meter_df = <<>>
  /\ original_matrix = <<>>
  /\ consumption_matrix = <<>>
  /\ mask = {}
  /\ imputed_matrix = <<>>
  /\ prev_imputed = <<>>
  /\ iteration = 0

NoGaps ==
  /\ gaps = <<>>
  /\ meter_stats = <<>>

NoHybrid ==
  /\ gap_threshold_hours = 0
  /\ small_gaps = <<>>
  /\ large_gaps = <<>>

NoPar ==
  /\ n_workers = 1
  /\ progress_callback = FALSE
  /\ verbose = TRUE
  /\ id_chunks = <<>>
  /\ futures = <<>>
  /\ progress_calls = <<>>

NoGui ==
  /\ processing_mode = "fast"
  /\ original_exists = FALSE
  /\ output_exists = FALSE
  /\ script_found = FALSE
  /\ current_progress_file = "unset"
  /\ env_progress_file = "unset"
  /\ gui_pc = "idle"
  /\ proc = "none"
  /\ progress_files = <<>>
  /\ progress_bar = 0
  /\ timer = FALSE
  /\ polls = 0
  /\ script_log = "none"

\* The other entry points are not in use.
NoEntry == NoHybrid /\ NoGaps /\ NoPar /\ NoGui
NoBesideHybrid == NoGaps /\ NoPar /\ NoGui
NoBesidePar == NoHybrid /\ NoGaps /\ NoGui

NoHistory ==
  /\ raised_rows = {}
  /\ svds_calls = <<>>

NoOther ==
  /\ other_df = <<>>
  /\ other_result = <<>>
  /\ smoothed_matrix = <<>>
  /\ preserve_monotonicity = FALSE

Init ==
  /\ fn \in {"simple", "joblib"}
  /\ has_id \in BOOLEAN
  /\ df \in InputTables
  /\ enforce_monotonicity \in BOOLEAN
  /\ pc = "call"
  /\ idx = 1
  /\ NoHistory
  /\ NoEntry
  /\ processed_batches = <<>>
  /\ result = NoResult
  /\ smoothed = NoResult
  /\ NoSvdOpts
  /\ NoSvdLocals
  /\ NoOther

\* ------------------------------------------------ simple_latc_imputation
\* Lines 30-34: the 'id' check and the legacy fallback.
SimpleCheckId ==
  /\ pc = "call" /\ fn = "simple"
  /\ IF has_id
       THEN /\ pc' = "loop"
            /\ UNCHANGED result
       ELSE /\ result' = _legacy_imputation(df, enforce_monotonicity)
            /\ pc' = "returned"
  /\ UNCHANGED <<otherVars, callVars, entryVars, history, svdOpts, svdLocals, idx, processed_batches, smoothed>>

\* Lines 51-89: one pass of the loop over unique_ids; idx counts from 1 here
\* and from 0 in the code.
SimpleProcessMeter ==
  /\ pc = "loop" /\ fn = "simple"
  /\ idx <= Len(unique_ids(df))
  /\ processed_batches' =
        Append(processed_batches,
               SimpleMeter(df, unique_ids(df)[idx], enforce_monotonicity))
  /\ progress_calls' = simple_progress(progress_calls, idx - 1, Len(unique_ids(df)),
                                       progress_callback)
  /\ idx' = idx + 1
  /\ UNCHANGED <<otherVars, callVars, besideProgress, history, svdOpts, svdLocals, pc, result, smoothed>>

\* Lines 91-100: pd.concat(processed_batches, ignore_index=True).
SimpleConcat ==
  /\ pc = "loop" /\ fn = "simple"
  /\ idx > Len(unique_ids(df))
  /\ result' = concat(processed_batches)
  /\ pc' = "returned"
  /\ UNCHANGED <<otherVars, callVars, entryVars, history, svdOpts, svdLocals, idx, processed_batches, smoothed>>

\* ----------------------------------------- simple_latc_imputation_joblib
\* Lines 48-50: without 'id' the input table is returned as it is.
\* Lines 67-120: otherwise every meter is processed and written back.
JoblibCall ==
  /\ pc = "call" /\ fn = "joblib"
  /\ result' = IF has_id THEN joblib_reconstruct(df, enforce_monotonicity) ELSE df
  /\ pc' = "returned"
  /\ UNCHANGED <<otherVars, callVars, entryVars, history, svdOpts, svdLocals, idx, processed_batches, smoothed>>

\* ------------------------------------------- the post-smoothing of the app
\* latc_app.py lines 384-424: the imputed table is sorted by (id, data), the
\* original is aligned to it row by row, and smooth_time_series_numpy runs
\* with the window the user picked.
AppSmooth ==
  /\ pc = "returned" /\ fn = "simple" /\ has_id
  /\ \E window_size \in 1..MaxWindow :
       LET df_to_smooth == sort_values(result)
           df_aligned == merge_left(df_to_smooth, df)
       IN /\ smoothed' = smooth_time_series_numpy(df_to_smooth, df_aligned, window_size)
          /\ smoothing_window' = window_size
  /\ pc' = "smoothed"
  /\ UNCHANGED <<otherVars, callVars, entryVars, history, apply_smoothing, smoothing_method, max_iterations,
                 svdLocals, idx, processed_batches, result>>

Next ==
  \/ SimpleCheckId
  \/ SimpleProcessMeter
  \/ SimpleConcat
  \/ JoblibCall
  \/ AppSmooth

Spec == Init /\ [][Next]_vars

\* --------------------------------------------------- latc_svd_imputation
\* Largest max_iterations a caller passes.
MaxIter == 2

\* An imputed table holds a meter at p = 1 (B's row between A's days).
InputTablesSvd == {Table(MA, InputRowB, 1) : MA \in InputMatricesA}

InitSvd ==
  /\ fn = "svd"
  /\ has_id \in BOOLEAN
  /\ df \in InputTablesSvd
  /\ enforce_monotonicity \in BOOLEAN
  /\ apply_smoothing \in BOOLEAN
  /\ smoothing_method \in (IF apply_smoothing THEN Methods ELSE {"savgol"})
  /\ smoothing_window = MaxWindow
  /\ max_iterations \in 0..MaxIter
  /\ pc = "call"
  /\ idx = 1
  /\ NoHistory
  /\ NoEntry
  /\ processed_batches = <<>>
  /\ result = NoResult
  /\ smoothed = NoResult
  /\ NoSvdLocals
  /\ NoOther

\* Lines 142-148: the 'id' check; without 'id' the whole table goes through
\* _legacy_svd_imputation as one matrix.
SvdCheckId ==
  /\ pc = "call" /\ fn = "svd"
  /\ IF has_id
       THEN /\ pc' = "svd_loop"
            /\ UNCHANGED meter_df
       ELSE /\ meter_df' = df
            /\ pc' = "svd_phase1"
  /\ UNCHANGED <<otherVars, callVars, entryVars, history, svdOpts, idx, processed_batches, result, smoothed,
                 original_matrix, consumption_matrix, mask, imputed_matrix, prev_imputed,
                 iteration>>

\* Lines 157-169: the next meter's rows are handed to _legacy_svd_imputation.
SvdNextMeter ==
  /\ pc = "svd_loop" /\ idx <= Len(unique_ids(df))
  /\ meter_df' = RowsOf(df, unique_ids(df)[idx])
  /\ pc' = "svd_phase1"
  /\ UNCHANGED <<otherVars, callVars, entryVars, history, svdOpts, idx, processed_batches, result, smoothed,
                 original_matrix, consumption_matrix, mask, imputed_matrix, prev_imputed,
                 iteration>>

\* Lines 195-298: cleaning, the mask, the Phase 1 estimate.
SvdPhase1 ==
  /\ pc = "svd_phase1"
  /\ original_matrix' = MatrixOf(meter_df)
  /\ consumption_matrix' = clean(MatrixOf(meter_df))
  /\ mask' = mask_of(consumption_matrix')
  /\ imputed_matrix' = initial_fill(consumption_matrix')
  /\ prev_imputed' = <<>>
  /\ iteration' = 0
  /\ svds_calls' = <<>>
  /\ pc' = "svd_iter"
  /\ UNCHANGED <<otherVars, callVars, entryVars, raised_rows, svdOpts, idx, processed_batches, result, smoothed,
                 meter_df>>

\* Lines 308-315: what svds and the reconstruction give: a matrix, or Raised
\* (always so when the rank is below 1).
SvdOutcomes(M) ==
  IF rank_of(M) < 1 THEN {Raised} ELSE ReconSet(M) \cup {Raised}

\* A loop that makes one pass more: range(max_iterations + 1).
SvdIterate_one_more ==
  /\ pc = "svd_iter" /\ iteration <= max_iterations
  /\ \E o \in SvdOutcomes(imputed_matrix) :
       IF o = Raised
         THEN /\ pc' = "svd_post"
              /\ svds_calls' = Append(svds_calls, "raised")
              /\ UNCHANGED <<imputed_matrix, prev_imputed, iteration, progress_calls>>
         ELSE LET new == update_missing(imputed_matrix, mask, o)
              IN /\ imputed_matrix' = new
                 /\ svds_calls' = Append(svds_calls, "ok")
                 /\ progress_calls' \in
                      iteration_progress(progress_calls, iteration, max_iterations,
                                         progress_callback /\ ~has_id,
                                         verbose /\ ~has_id)
                 /\ IF iteration > 0 /\ converged(new, prev_imputed)
                      THEN /\ pc' = "svd_post"
                           /\ UNCHANGED <<prev_imputed, iteration>>
                      ELSE /\ prev_imputed' = new
                           /\ iteration' = iteration + 1
                           /\ pc' = "svd_iter"
  /\ UNCHANGED <<otherVars, callVars, besideProgress, raised_rows, svdOpts, idx, processed_batches, result, smoothed,
                 meter_df, original_matrix, consumption_matrix, mask>>

\* A loop whose except branch falls back to the Phase 1 estimate.
SvdIterate_failure_resets ==
  /\ pc = "svd_iter" /\ iteration < max_iterations
  /\ \E o \in SvdOutcomes(imputed_matrix) :
       IF o = Raised
         THEN /\ pc' = "svd_post"
              /\ svds_calls' = Append(svds_calls, "raised")
              /\ imputed_matrix' = initial_fill(consumption_matrix)
              /\ UNCHANGED <<prev_imputed, iteration, progress_calls>>
         ELSE LET new == update_missing(imputed_matrix, mask, o)
              IN /\ imputed_matrix' = new
                 /\ svds_calls' = Append(svds_calls, "ok")
                 /\ progress_calls' \in
                      iteration_progress(progress_calls, iteration, max_iterations,
                                         progress_callback /\ ~has_id,
                                         verbose /\ ~has_id)
                 /\ IF iteration > 0 /\ converged(new, prev_imputed)
                      THEN /\ pc' = "svd_post"
                           /\ UNCHANGED <<prev_imputed, iteration>>
                      ELSE /\ prev_imputed' = new
                           /\ iteration' = iteration + 1
                           /\ pc' = "svd_iter"
  /\ UNCHANGED <<otherVars, callVars, besideProgress, raised_rows, svdOpts, idx, processed_batches, result, smoothed,
                 meter_df, original_matrix, consumption_matrix, mask>>

\* Lines 306-335: one pass of the refinement loop.
SvdIterate ==
  /\ pc = "svd_iter" /\ iteration < max_iterations
  /\ \E o \in SvdOutcomes(imputed_matrix) :
       IF o = Raised
         THEN /\ pc' = "svd_post"
              /\ svds_calls' = Append(svds_calls, "raised")
              /\ UNCHANGED <<imputed_matrix, prev_imputed, iteration, progress_calls>>
         ELSE LET new == update_missing(imputed_matrix, mask, o)
              IN /\ imputed_matrix' = new
                 /\ svds_calls' = Append(svds_calls, "ok")
                 /\ progress_calls' \in
                      iteration_progress(progress_calls, iteration, max_iterations,
                                         progress_callback /\ ~has_id,
                                         verbose /\ ~has_id)
                 /\ IF iteration > 0 /\ converged(new, prev_imputed)
                      THEN /\ pc' = "svd_post"
                           /\ UNCHANGED <<prev_imputed, iteration>>
                      ELSE /\ prev_imputed' = new
                           /\ iteration' = iteration + 1
                           /\ pc' = "svd_iter"
  /\ UNCHANGED <<otherVars, callVars, besideProgress, raised_rows, svdOpts, idx, processed_batches, result, smoothed,
                 meter_df, original_matrix, consumption_matrix, mask>>

\* The loop ends after max_iterations passes.
SvdLoopEnd ==
  /\ pc = "svd_iter" /\ iteration >= max_iterations
  /\ pc' = "svd_post"
  /\ UNCHANGED <<otherVars, callVars, entryVars, history, svdOpts, svdLocals, idx, processed_batches, result,
                 smoothed>>

\* Lines 337-383: Phase 3 and the return of _legacy_svd_imputation; with 'id'
\* the rows join processed_batches (line 171) and the callback is told how
\* far the loop is (lines 173-176), without they are the result.
SvdPost ==
  /\ pc = "svd_post"
  /\ \E ks \in KernelRuns(Len(imputed_matrix),
                            apply_smoothing /\ uses_kernel(NCols, smoothing_method,
                                                           smoothing_window)) :
       LET final == post_process(imputed_matrix, mask, original_matrix,
                                 enforce_monotonicity, apply_smoothing,
                                 smoothing_method, smoothing_window, ks)
           rows == SetVals(meter_df, final)
       IN IF has_id
            THEN /\ processed_batches' = Append(processed_batches, rows)
                 /\ progress_calls' =
                      svd_progress(progress_calls, idx - 1, Len(unique_ids(df)),
                                   progress_callback)
                 /\ idx' = idx + 1
                 /\ pc' = "svd_loop"
                 /\ UNCHANGED result
            ELSE /\ result' = rows
                 /\ pc' = "returned"
                 /\ UNCHANGED <<processed_batches, idx, progress_calls>>
  /\ UNCHANGED <<otherVars, callVars, besideProgress, history, svdOpts, svdLocals, smoothed>>

\* Line 179: pd.concat(processed_batches, ignore_index=True).
SvdConcat ==
  /\ pc = "svd_loop" /\ idx > Len(unique_ids(df))
  /\ result' = concat(processed_batches)
  /\ pc' = "returned"
  /\ UNCHANGED <<otherVars, callVars, entryVars, history, svdOpts, svdLocals, idx, processed_batches, smoothed>>

NextSvd ==
  \/ SvdCheckId
  \/ SvdNextMeter
  \/ SvdPhase1
  \/ SvdIterate
  \/ SvdLoopEnd
  \/ SvdPost
  \/ SvdConcat

SpecSvd == InitSvd /\ [][NextSvd]_vars

\* The calls whose runs are followed to their end: every table and every
\* max_iterations, the options of Phase 3 at their defaults.
InitSvdFair ==
  /\ InitSvd
  /\ enforce_monotonicity
  /\ ~apply_smoothing

\* The call runs on one thread and the loop waits for nothing: while the
\* loop can make a pass it makes one, and when it can end it ends.
SpecSvdFair ==
  InitSvdFair /\ [][NextSvd]_vars /\ WF_vars(SvdIterate) /\ WF_vars(SvdLoopEnd)

\* ------------------------------------ two tables agreeing on meter "A"
\* Another row for meter B: a gap, then readings next to InputRowB's.
OtherRowB == AsSeq([j \in Cols |-> IF j = 1 THEN NaN ELSE (90 + j) * Scale])

\* Tables holding MA for meter "A": B's row moved to the front, replaced
\* (in the middle or at the end), or absent.
OtherTables(MA) ==
  {Table(MA, InputRowB, 0), Table(MA, OtherRowB, 1), Table(MA, OtherRowB, NDays),
   AsSeq([d \in 1..NDays |-> [id |-> "A", data |-> d, vals |-> MA[d]]])}

InitIso ==
  /\ fn \in {"simple", "svd"}
  /\ has_id = TRUE
  /\ df \in InputTablesSvd
  /\ other_df \in OtherTables(MatrixOf(RowsOf(df, "A")))
  /\ enforce_monotonicity \in BOOLEAN
  /\ apply_smoothing \in (IF fn = "svd" THEN BOOLEAN ELSE {FALSE})
  /\ smoothing_method = (IF fn = "svd" THEN "moving_avg" ELSE "savgol")
  /\ smoothing_window = MaxWindow
  /\ max_iterations = (IF fn = "svd" THEN MaxIter ELSE 0)
  /\ pc = "call"
  /\ idx = 1
  /\ NoHistory
  /\ NoEntry
  /\ processed_batches = <<>>
  /\ result = NoResult
  /\ smoothed = NoResult
  /\ other_result = NoResult
  /\ smoothed_matrix = <<>>
  /\ preserve_monotonicity = FALSE
  /\ NoSvdLocals

\* simple_latc_imputation called on each of the two tables.
IsoSimple ==
  /\ pc = "call" /\ fn = "simple"
  /\ result' = simple_latc_imputation(df, enforce_monotonicity)
  /\ other_result' = simple_latc_imputation(other_df, enforce_monotonicity)
  /\ pc' = "returned"
  /\ UNCHANGED <<callVars, entryVars, history, svdOpts, svdLocals, idx, processed_batches, smoothed,
                 other_df, smoothed_matrix, preserve_monotonicity>>

\* latc_svd_imputation called on each of the two tables; svds, a function of
\* the matrix it is given, takes the same picks in both calls.
IsoSvd ==
  /\ pc = "call" /\ fn = "svd"
  /\ \E n \in 0..MaxIter : \E meter_picks \in [1..n -> ReconPicks] :
       LET opts == [enforce |-> enforce_monotonicity, smoothing |-> apply_smoothing,
                    method |-> smoothing_method, window |-> smoothing_window,
                    max_iterations |-> max_iterations]
           picks == [m \in Meters |-> meter_picks]
           ks == [m \in Meters |-> [i \in 1..(NDays + 1) |-> "same"]]
       IN /\ result' = latc_svd_imputation(df, opts, picks, ks)
          /\ other_result' = latc_svd_imputation(other_df, opts, picks, ks)
  /\ pc' = "returned"
  /\ UNCHANGED <<callVars, entryVars, history, svdOpts, svdLocals, idx, processed_batches, smoothed,
                 other_df, smoothed_matrix, preserve_monotonicity>>

NextIso == IsoSimple \/ IsoSvd

SpecIso == InitIso /\ [][NextIso]_vars

\* --------------------------------------------------- smooth_imputed_data
\* Columns and rows of the matrices smooth_imputed_data is called with.
SmoothCols == 5
SmoothRows == 2

\* The observed columns of an original row: none, all, the first two, the
\* odd ones, all but the middle one.
RowMasks ==
  {{}, 1..SmoothCols, {1, 2}, {j \in 1..SmoothCols : j % 2 = 1},
   (1..SmoothCols) \ {(SmoothCols + 1) \div 2}}

\* The values of a row, by shape.
ShapeRow(shape) ==
  AsSeq([j \in 1..SmoothCols |->
     (IF shape = "up" THEN j
      ELSE IF shape = "down" THEN SmoothCols + 1 - j
      ELSE IF shape = "flat" THEN 3
      ELSE IF j % 2 = 1 THEN 4 ELSE 2) * Scale])

OriginalRows ==
  {AsSeq([j \in 1..SmoothCols |-> IF j \in obs THEN ShapeRow(shape)[j] ELSE NaN]) :
     obs \in RowMasks, shape \in {"up", "down", "zig"}}
ImputedRows == {ShapeRow(shape) : shape \in {"up", "down", "flat"}}

SmoothWindows == {2, MaxWindow}

InitSmooth ==
  /\ fn = "smooth"
  /\ original_matrix \in [1..SmoothRows -> OriginalRows]
  /\ imputed_matrix \in [1..SmoothRows -> ImputedRows]
  /\ smoothing_method \in Methods \cup {"other"}
  /\ smoothing_window \in SmoothWindows
  /\ preserve_monotonicity \in BOOLEAN
  /\ smoothed_matrix = <<>>
  /\ pc = "call"
  /\ idx = 1
  /\ NoHistory
  /\ NoEntry
  /\ has_id = TRUE
  /\ df = <<>>
  /\ enforce_monotonicity = FALSE
  /\ processed_batches = <<>>
  /\ result = NoResult
  /\ smoothed = NoResult
  /\ other_df = <<>>
  /\ other_result = NoResult
  /\ apply_smoothing = TRUE
  /\ max_iterations = 0
  /\ meter_df = <<>>
  /\ consumption_matrix = <<>>
  /\ mask = {}
  /\ prev_imputed = <<>>
  /\ iteration = 0

\* Lines 38-46: smoothed_matrix = imputed_matrix.copy().
SmoothEnter ==
  /\ pc = "call" /\ fn = "smooth"
  /\ smoothed_matrix' = AsSeq(imputed_matrix)
  /\ pc' = "smooth_loop"
  /\ UNCHANGED <<callVars, entryVars, history, svdOpts, svdLocals, idx, processed_batches, result,
                 smoothed, other_df, other_result, preserve_monotonicity>>

\* Lines 49-108: one pass of the loop over the rows.
SmoothRow ==
  /\ pc = "smooth_loop" /\ idx <= Len(imputed_matrix)
  /\ \E k \in (IF uses_kernel(SmoothCols, smoothing_method, smoothing_window)
                 THEN KernelChoices ELSE {"same"}) :
       /\ smoothed_matrix' =
            [smoothed_matrix EXCEPT ![idx] =
               smooth_row(imputed_matrix[idx], original_matrix[idx], smoothing_method,
                          smoothing_window, preserve_monotonicity, k)]
       /\ raised_rows' =
            IF row_raises(imputed_matrix[idx], original_matrix[idx], smoothing_method,
                          smoothing_window, k)
              THEN raised_rows \cup {idx} ELSE raised_rows
  /\ idx' = idx + 1
  /\ UNCHANGED <<callVars, entryVars, svds_calls, svdOpts, svdLocals, pc, processed_batches, result,
                 smoothed, other_df, other_result, preserve_monotonicity>>

\* Lines 110-113: return smoothed_matrix.
SmoothReturn ==
  /\ pc = "smooth_loop" /\ idx > Len(imputed_matrix)
  /\ pc' = "returned"
  /\ UNCHANGED <<callVars, entryVars, history, svdOpts, svdLocals, idx, processed_batches, result,
                 smoothed, otherVars>>

NextSmooth == SmoothEnter \/ SmoothRow \/ SmoothReturn

SpecSmooth == InitSmooth /\ [][NextSmooth]_vars

\* ------------------------------ the cleaning step of _legacy_svd_imputation
\* Readings of the matrices the cleaning step is run on.
CleanVals == {0, 1, 12, 40, 90}
CleanRows == [Cols -> {v * Scale : v \in CleanVals} \cup {NaN}]

InitClean ==
  /\ fn = "clean"
  /\ original_matrix \in [1..NDays -> CleanRows]
  /\ consumption_matrix = original_matrix
  /\ mask = mask_of(original_matrix)
  /\ pc = "call"
  /\ idx = 1
  /\ NoHistory
  /\ NoEntry
  /\ has_id = TRUE
  /\ df = <<>>
  /\ enforce_monotonicity = FALSE
  /\ processed_batches = <<>>
  /\ result = NoResult
  /\ smoothed = NoResult
  /\ NoSvdOpts
  /\ NoOther
  /\ meter_df = <<>>
  /\ imputed_matrix = <<>>
  /\ prev_imputed = <<>>
  /\ iteration = 0

\* Lines 240-241: zeros become missing, the mask follows.
CleanZeros ==
  /\ fn = "clean" /\ pc = "call"
  /\ consumption_matrix' = clean_zeros(consumption_matrix)
  /\ mask' = mask_of(consumption_matrix')
  /\ pc' = "zeros_done"
  /\ UNCHANGED <<otherVars, callVars, entryVars, history, svdOpts, idx, processed_batches, result,
                 smoothed, meter_df, original_matrix, imputed_matrix, prev_imputed,
                 iteration>>

\* Lines 248-259: the spike filter.
FilterSpikes ==
  /\ fn = "clean" /\ pc = "zeros_done"
  /\ consumption_matrix' = filter_spikes(consumption_matrix)
  /\ pc' = "spikes_done"
  /\ UNCHANGED <<otherVars, callVars, entryVars, history, svdOpts, idx, processed_batches, result,
                 smoothed, meter_df, original_matrix, mask, imputed_matrix, prev_imputed,
                 iteration>>

\* Lines 265-277: the drop filter, then the mask of the cleaned matrix.
FilterDrops ==
  /\ fn = "clean" /\ pc = "spikes_done"
  /\ consumption_matrix' = filter_drops(consumption_matrix)
  /\ mask' = mask_of(consumption_matrix')
  /\ pc' = "cleaned"
  /\ UNCHANGED <<otherVars, callVars, entryVars, history, svdOpts, idx, processed_batches, result,
                 smoothed, meter_df, original_matrix, imputed_matrix, prev_imputed,
                 iteration>>

\* Lines 239-274 once more, on the cleaned matrix; mask stays the mask of the
\* first application.
CleanAgain ==
  /\ fn = "clean" /\ pc = "cleaned"
  /\ consumption_matrix' = clean(consumption_matrix)
  /\ pc' = "cleaned_twice"
  /\ UNCHANGED <<otherVars, callVars, entryVars, history, svdOpts, idx, processed_batches, result,
                 smoothed, meter_df, original_matrix, mask, imputed_matrix, prev_imputed,
                 iteration>>

NextClean == CleanZeros \/ FilterSpikes \/ FilterDrops \/ CleanAgain

SpecClean == InitClean /\ [][NextClean]_vars

\* ------------------------------------- the monotonicity enforcement pass
\* Filled matrices the pass is run on: every cell holds a reading.
FilledRows == [Cols -> {v * Scale : v \in RawVals}]

InitEnforce ==
  /\ fn = "enforce"
  /\ original_matrix \in [1..NDays -> FilledRows]
  /\ imputed_matrix = original_matrix
  /\ prev_imputed = <<>>
  /\ enforce_monotonicity = TRUE
  /\ pc = "call"
  /\ idx = 1
  /\ NoHistory
  /\ NoEntry
  /\ has_id = TRUE
  /\ df = <<>>
  /\ processed_batches = <<>>
  /\ result = NoResult
  /\ smoothed = NoResult
  /\ NoSvdOpts
  /\ NoOther
  /\ meter_df = <<>>
  /\ consumption_matrix = <<>>
  /\ mask = {}
  /\ iteration = 0

\* The pass (latc_simple.py lines 81-85, latc_advanced.py lines 345-352),
\* run on imputed_matrix; prev_imputed keeps the matrix as it was before.
EnforcePass ==
  /\ fn = "enforce" /\ pc \in {"call", "enforced"}
  /\ imputed_matrix' = MapRows(enforce_row, imputed_matrix)
  /\ prev_imputed' = imputed_matrix
  /\ pc' = (IF pc = "call" THEN "enforced" ELSE "enforced_twice")
  /\ UNCHANGED <<otherVars, callVars, entryVars, history, svdOpts, idx, processed_batches, result,
                 smoothed, meter_df, original_matrix, consumption_matrix, mask, iteration>>

NextEnforce == EnforcePass

SpecEnforce == InitEnforce /\ [][NextEnforce]_vars

\* ------------------------------------------------ latc_hybrid_imputation
\* Lines 410-424: the scan of one row after its first n columns.  Columns are
\* counted from 1; a recorded gap <<i, gap_start, j>> covers the columns
\* gap_start .. j-1.
RECURSIVE scan_row(_, _, _, _, _)
scan_row(row, i, threshold, n, entry) ==
  IF n = 0 THEN [in_gap |-> FALSE, gap_start |-> 1,
                 small |-> entry.small, large |-> entry.large]
  ELSE LET st == scan_row(row, i, threshold, n - 1, entry)
       IN IF IsNaN(row[n])
            THEN IF ~st.in_gap
                   THEN [st EXCEPT !.gap_start = n, !.in_gap = TRUE]
                   ELSE st
            ELSE IF st.in_gap
                   THEN IF n - st.gap_start <= threshold
                          THEN [st EXCEPT !.small = Append(st.small, <<i, st.gap_start, n>>),
                                          !.in_gap = FALSE]
                          ELSE [st EXCEPT !.large = Append(st.large, <<i, st.gap_start, n>>),
                                          !.in_gap = FALSE]
                   ELSE st

\* Lines 401-424: the scan of the first n rows of the table's matrix.
RECURSIVE scan_gaps(_, _, _)
scan_gaps(M, threshold, n) ==
  IF n = 0 THEN [small |-> <<>>, large |-> <<>>]
  ELSE LET st == scan_row(M[n], n, threshold, Len(M[n]),
                          scan_gaps(M, threshold, n - 1))
       IN [small |-> st.small, large |-> st.large]

\* latc_svd_imputation with its 'id' check (lines 142-179).
latc_svd_call(table, id, opts, picks, ks) ==
  IF id THEN latc_svd_imputation(table, opts, picks, ks)
  ELSE _legacy_svd_imputation(table, opts, picks["A"], ks["A"])

\* A hybrid that honours the classification: without a large gap it returns
\* what simple_latc_imputation gives (the branch the code has commented out).
latc_hybrid_honouring(table, id, scan, opts, picks, ks) ==
  IF scan.large = <<>> /\ id THEN simple_latc_imputation(table, TRUE)
  ELSE latc_svd_call(table, id, opts, picks, ks)

\* Lines 429-449: the decision after the scan; scan is what the scan found.
latc_hybrid_imputation(table, id, scan, opts, picks, ks) ==
  latc_svd_call(table, id, opts, picks, ks)

\* Thresholds: every run large (0), runs of one column small (1), every run
\* small (NCols).
GapThresholds == {0, 1, NCols}

InitHybrid ==
  /\ fn = "hybrid"
  /\ has_id \in BOOLEAN
  /\ df \in InputTablesSvd
  /\ enforce_monotonicity = TRUE
  /\ apply_smoothing \in BOOLEAN
  /\ smoothing_method = "moving_avg"
  /\ smoothing_window = MaxWindow
  /\ max_iterations \in 0..MaxIter
  /\ gap_threshold_hours \in GapThresholds
  /\ small_gaps = <<>>
  /\ large_gaps = <<>>
  /\ NoBesideHybrid
  /\ pc = "call"
  /\ idx = 1
  /\ NoHistory
  /\ processed_batches = <<>>
  /\ result = NoResult
  /\ smoothed = NoResult
  /\ NoSvdLocals
  /\ NoOther

\* Lines 397-426: the gap scan.
HybridScan ==
  /\ fn = "hybrid" /\ pc = "call"
  /\ LET scan == scan_gaps(MatrixOf(df), gap_threshold_hours, Len(df))
     IN /\ small_gaps' = scan.small
        /\ large_gaps' = scan.large
  /\ pc' = "hybrid_scanned"
  /\ UNCHANGED <<otherVars, callVars, history, svdOpts, svdLocals, idx, processed_batches,
                 result, smoothed, gap_threshold_hours, besideHybrid>>

\* Lines 429-449: the return; next to it, latc_svd_imputation called on the
\* same table with the same options, svds taking the same picks.
HybridReturn ==
  /\ fn = "hybrid" /\ pc = "hybrid_scanned"
  /\ \E n \in 0..max_iterations : \E meter_picks \in [1..n -> ReconPicks] :
       LET opts == [enforce |-> enforce_monotonicity, smoothing |-> apply_smoothing,
                    method |-> smoothing_method, window |-> smoothing_window,
                    max_iterations |-> max_iterations]
           picks == [m \in Meters |-> meter_picks]
           ks == [m \in Meters |-> [i \in 1..(NDays + 1) |-> "same"]]
           scan == [small |-> small_gaps, large |-> large_gaps]
       IN /\ result' = latc_hybrid_imputation(df, has_id, scan, opts, picks, ks)
          /\ other_result' = latc_svd_call(df, has_id, opts, picks, ks)
  /\ pc' = "returned"
  /\ UNCHANGED <<callVars, history, entryVars, svdOpts, svdLocals, idx, processed_batches,
                 smoothed, other_df, smoothed_matrix, preserve_monotonicity>>

NextHybrid == HybridScan \/ HybridReturn

SpecHybrid == InitHybrid /\ [][NextHybrid]_vars

\* ------------------------------------------------- gap_analysis.py
\* Lines 52-68: the gap lengths of a row after its first n columns, with the
\* loop's in_gap and gap_start (columns counted from 1).
RECURSIVE gap_scan(_, _)
gap_scan(row, n) ==
  IF n = 0 THEN [in_gap |-> FALSE, gap_start |-> 1, gaps |-> <<>>]
  ELSE LET st == gap_scan(row, n - 1)
       IN IF IsNaN(row[n])
            THEN IF ~st.in_gap THEN [st EXCEPT !.gap_start = n, !.in_gap = TRUE]
                 ELSE st
            ELSE IF st.in_gap
                   THEN [st EXCEPT !.gaps = Append(st.gaps, n - st.gap_start),
                                   !.in_gap = FALSE]
                   ELSE st

\* The same loop without lines 67-68, the closing of a gap open at the end.
row_gaps_unclosed(row) == gap_scan(row, Len(row)).gaps

\* Lines 52-68: gaps of a row; a gap open at the end of the row is closed.
row_gaps(row) ==
  LET st == gap_scan(row, Len(row))
  IN IF st.in_gap THEN Append(st.gaps, Len(row) + 1 - st.gap_start) ELSE st.gaps

\* Lines 72-80: the row's entry of meter_stats (the mean and the median of the
\* gap lengths are left out: they are not integers).
row_stats(i, row) ==
  LET found == row_gaps(row)
  IN [meter_id |-> i,
      missing_count |-> Cardinality({j \in 1..Len(row) : IsNaN(row[j])}),
      num_gaps |-> Len(found),
      max_gap_size |-> IF found = <<>> THEN 0
                       ELSE SetMax({found[k] : k \in 1..Len(found)})]

\* Width of the rows analyze_gaps is run on.
GapCols == 4
GapRows == [1..GapCols -> {NaN, Scale}]

\* Tables of two days of meter "A" and one day of meter "B".
InitGaps ==
  /\ fn = "analyze_gaps"
  /\ \E a1 \in GapRows, a2 \in GapRows, b1 \in GapRows :
       df = << [id |-> "A", data |-> 1, vals |-> a1],
               [id |-> "A", data |-> 2, vals |-> a2],
               [id |-> "B", data |-> 1, vals |-> b1] >>
  /\ has_id = TRUE
  /\ enforce_monotonicity = FALSE
  /\ pc = "call"
  /\ idx = 1
  /\ NoHistory
  /\ NoEntry
  /\ processed_batches = <<>>
  /\ result = NoResult
  /\ smoothed = NoResult
  /\ NoSvdOpts
  /\ NoSvdLocals
  /\ NoOther

\* Lines 28-44: the matrix, the global statistics, meter_stats = [].
GapsEnter ==
  /\ fn = "analyze_gaps" /\ pc = "call"
  /\ meter_stats' = <<>>
  /\ pc' = "gaps_loop"
  /\ UNCHANGED <<otherVars, callVars, history, besideGaps, svdOpts, svdLocals, idx,
                 processed_batches, result, smoothed, gaps>>

\* Lines 46-80: one pass of the loop over the rows.
GapsRow ==
  /\ fn = "analyze_gaps" /\ pc = "gaps_loop" /\ idx <= Len(df)
  /\ gaps' = row_gaps(df[idx].vals)
  /\ meter_stats' = Append(meter_stats, row_stats(idx, df[idx].vals))
  /\ idx' = idx + 1
  /\ UNCHANGED <<otherVars, callVars, history, besideGaps, svdOpts, svdLocals, pc,
                 processed_batches, result, smoothed>>

\* Lines 82-106: the statistics are returned.
GapsReturn ==
  /\ fn = "analyze_gaps" /\ pc = "gaps_loop" /\ idx > Len(df)
  /\ result' = meter_stats
  /\ pc' = "returned"
  /\ UNCHANGED <<otherVars, callVars, history, entryVars, svdOpts, svdLocals, idx,
                 processed_batches, smoothed>>

NextGaps == GapsEnter \/ GapsRow \/ GapsReturn

SpecGaps == InitGaps /\ [][NextGaps]_vars

\* ------------------------------------ the parallel variants, with workers
MaxWorkers == 2

\* df.to_csv(temp_path, index=False) and pd.read_csv(df_path): a missing
\* reading is written as an empty field, and an empty field is read back as
\* missing; a reading is written in the shortest form that reads back as the
\* same number.  A field is <<>> when empty and <<v>> otherwise.
to_csv(table) ==
  AsSeq([k \in 1..Len(table) |->
     [table[k] EXCEPT !.vals =
        AsSeq([j \in 1..Len(table[k].vals) |->
           IF IsNaN(table[k].vals[j]) THEN <<>> ELSE <<table[k].vals[j]>>])]])
read_csv(csv) ==
  AsSeq([k \in 1..Len(csv) |->
     [csv[k] EXCEPT !.vals =
        AsSeq([j \in 1..Len(csv[k].vals) |->
           IF csv[k].vals[j] = <<>> THEN NaN ELSE csv[k].vals[j][1]])]])

\* latc_simple_optimized.py lines 91-92: four chunks per worker, at least one
\* meter per chunk.
chunk_size(n_ids, workers) == SetMax({1, n_ids \div (workers * 4)})
split_ids(ids, size) ==
  AsSeq([c \in 1..((Len(ids) + size - 1) \div size) |->
     SubSeq(ids, (c - 1) * size + 1, SetMin({c * size, Len(ids)}))])

\* _process_meter_chunk_optimized: the worker reads the table back from the
\* file, fills each of its meters and concatenates them in the chunk's order.
_process_meter_chunk_optimized(meter_ids, csv, enforce) ==
  LET table == read_csv(csv)
  IN concat(AsSeq([k \in 1..Len(meter_ids) |->
        SimpleMeter(table, meter_ids[k], enforce)]))

\* latc_simple_joblib.py lines 69-74: one task per group of
\* df.groupby('id', sort=False), holding the meter's id and matrix.
joblib_tasks(table) ==
  LET ids == unique_ids(table)
  IN AsSeq([k \in 1..Len(ids) |-> <<ids[k], MatrixOf(RowsOf(table, ids[k]))>>])

\* Lines 110-117: imputed_dict, result_df = df.copy(), and every meter's rows
\* replaced where they stand by the rows of its imputed matrix.
reconstruct(table, results) ==
  AsSeq([k \in 1..Len(table) |->
     LET t == CHOOSE t \in 1..Len(results) : results[t][1] = table[k].id
         q == Cardinality({p \in 1..k : table[p].id = table[k].id})
     IN [table[k] EXCEPT !.vals = results[t][2][q]]])

\* latc_simple_optimized.py lines 118 and 123, k being idx + 1.
chunk_percents(k, n) == int_of_scaled_ratio(k, n, 100)

InitPar ==
  /\ fn \in {"joblib", "optimized"}
  /\ has_id \in BOOLEAN
  /\ df \in InputTables
  /\ enforce_monotonicity \in BOOLEAN
  /\ n_workers \in 1..MaxWorkers
  /\ progress_callback \in BOOLEAN
  /\ verbose = TRUE
  /\ id_chunks = <<>>
  /\ futures = <<>>
  /\ progress_calls = <<>>
  /\ NoBesidePar
  /\ pc = "call"
  /\ idx = 1
  /\ NoHistory
  /\ processed_batches = <<>>
  /\ result = NoResult
  /\ smoothed = NoResult
  /\ NoSvdOpts
  /\ NoSvdLocals
  /\ NoOther

\* Both variants, up to the point where the work is handed out.  Without 'id'
\* the input table is returned as it is (joblib lines 48-50, optimized lines
\* 61-63).  Otherwise joblib builds one task per meter (lines 69-74) and the
\* optimized variant writes the table to a file and splits the ids (lines
\* 81-100); other_df holds what that file reads back as.
ParSubmit ==
  /\ pc = "call" /\ fn \in {"joblib", "optimized"}
  /\ IF ~has_id
       THEN /\ result' = df
            /\ pc' = "returned"
            /\ UNCHANGED <<id_chunks, futures, other_df>>
       ELSE /\ id_chunks' =
                 IF fn = "joblib" THEN joblib_tasks(df)
                 ELSE split_ids(unique_ids(df),
                                chunk_size(Len(unique_ids(df)), n_workers))
            /\ futures' = AsSeq([c \in 1..Len(id_chunks') |-> <<>>])
            /\ other_df' = IF fn = "optimized" THEN to_csv(df) ELSE other_df
            /\ pc' = "par_running"
            /\ UNCHANGED result
  /\ UNCHANGED <<callVars, besidePar, parOpts, progress_calls, history, svdOpts,
                 svdLocals, idx, processed_batches, smoothed, other_result,
                 smoothed_matrix, preserve_monotonicity>>

\* A work unit finishes.  With more than one worker the units finish in any
\* order; with one worker (joblib's n_jobs=1, the optimized variant's else
\* branch at lines 125-127) they run one after the other.
WorkerDone ==
  /\ pc = "par_running"
  /\ \E c \in 1..Len(futures) :
       /\ futures[c] = <<>>
       /\ n_workers > 1 \/ \A b \in 1..(c - 1) : futures[b] # <<>>
       /\ futures' =
            [futures EXCEPT ![c] =
               IF fn = "joblib"
                 THEN <<<<id_chunks[c][1],
                          _process_meter_joblib(id_chunks[c][2], enforce_monotonicity)>>>>
                 ELSE <<_process_meter_chunk_optimized(id_chunks[c], other_df,
                                                       enforce_monotonicity)>>]
  /\ UNCHANGED <<callVars, besidePar, parOpts, id_chunks, progress_calls, history,
                 svdOpts, svdLocals, otherVars, pc, idx, processed_batches, result,
                 smoothed>>

\* latc_simple_optimized.py lines 113-123 and 125-127: the results are taken
\* in the order the chunks were submitted, each one once it is there; with
\* more than one worker the callback is told the share of chunks collected.
OptCollect ==
  /\ pc = "par_running" /\ fn = "optimized"
  /\ idx <= Len(futures)
  /\ futures[idx] # <<>>
  /\ processed_batches' = Append(processed_batches, futures[idx][1])
  /\ IF n_workers > 1 /\ progress_callback
       THEN \E progress \in chunk_percents(idx, Len(futures)) :
               progress_calls' = Append(progress_calls, progress)
       ELSE UNCHANGED progress_calls
  /\ idx' = idx + 1
  /\ UNCHANGED <<callVars, besidePar, parOpts, id_chunks, futures, history, svdOpts,
                 svdLocals, otherVars, pc, result, smoothed>>

\* Lines 129-145: the file is removed and the chunk results are concatenated.
OptReturn ==
  /\ pc = "par_running" /\ fn = "optimized"
  /\ idx > Len(futures)
  /\ result' = concat(processed_batches)
  /\ pc' = "returned"
  /\ UNCHANGED <<callVars, entryVars, history, svdOpts, svdLocals, otherVars, idx,
                 processed_batches, smoothed>>

\* latc_simple_joblib.py lines 88-120: Parallel hands back the results in task
\* order once every task is done (the sequential fallback of lines 95-104
\* computes the same list), and the table is rebuilt from them.
JoblibReconstruct ==
  /\ pc = "par_running" /\ fn = "joblib"
  /\ \A c \in 1..Len(futures) : futures[c] # <<>>
  /\ processed_batches' = AsSeq([c \in 1..Len(futures) |-> futures[c][1]])
  /\ result' = reconstruct(df, processed_batches')
  /\ pc' = "returned"
  /\ UNCHANGED <<callVars, entryVars, history, svdOpts, svdLocals, otherVars, idx,
                 smoothed>>

NextPar ==
  \/ ParSubmit
  \/ WorkerDone
  \/ OptCollect
  \/ OptReturn
  \/ JoblibReconstruct

SpecPar == InitPar /\ [][NextPar]_vars

\* ------------------------------------- calls that are given a callback
MaxMeters == 201
MaxProgressIter == 5

\* The numbers of meters: few, and enough for the loops to reach their
\* fiftieth and hundredth meter once and more than once.
MeterCounts == {1, 2, 5, 51, 101, MaxMeters}

\* A table of n meters with one complete day each.
ManyMeters(n) ==
  AsSeq([k \in 1..n |->
     [id |-> k, data |-> 1, vals |-> AsSeq([j \in Cols |-> j * Scale])]])

\* A table of two days with one reading missing, for the call without 'id'.
HoledTable ==
  AsSeq([k \in 1..2 |->
     [id |-> 1, data |-> k,
      vals |-> AsSeq([j \in Cols |-> IF k = 1 /\ j = 2 THEN NaN ELSE j * Scale])]])

InitProgress ==
  /\ fn \in {"simple", "svd", "optimized"}
  /\ progress_callback = TRUE
  /\ verbose \in BOOLEAN
  /\ \/ has_id = TRUE /\ df \in {ManyMeters(n) : n \in MeterCounts}
     \/ has_id = FALSE /\ df = HoledTable
  /\ n_workers \in (IF fn = "optimized" THEN 1..MaxWorkers ELSE {1})
  /\ enforce_monotonicity = TRUE
  /\ apply_smoothing = FALSE
  /\ smoothing_method = "savgol"
  /\ smoothing_window = MaxWindow
  /\ max_iterations \in (IF fn = "svd" THEN {0, MaxProgressIter} ELSE {0})
  /\ id_chunks = <<>>
  /\ futures = <<>>
  /\ progress_calls = <<>>
  /\ NoBesidePar
  /\ pc = "call"
  /\ idx = 1
  /\ NoHistory
  /\ processed_batches = <<>>
  /\ result = NoResult
  /\ smoothed = NoResult
  /\ NoSvdLocals
  /\ NoOther

NextProgress ==
  \/ SimpleCheckId
  \/ SimpleProcessMeter
  \/ SimpleConcat
  \/ SvdCheckId
  \/ SvdNextMeter
  \/ SvdPhase1
  \/ SvdIterate
  \/ SvdLoopEnd
  \/ SvdPost
  \/ SvdConcat
  \/ ParSubmit
  \/ WorkerDone
  \/ OptCollect
  \/ OptReturn

SpecProgress == InitProgress /\ [][NextProgress]_vars

\* ------------------------------------ latc_gui.py: a run and its monitor
MaxPolls == 3

\* Where a progress file can be: the tracker's default data/progress.json and
\* the monitor's latc_progress.json in the temporary directory.
ProgressPaths == {"data", "temp"}
Absent == -1

\* progress_tracker.py lines 11-25: the constructor picks the file named by
\* LATC_PROGRESS_FILE, or data/progress.json without it, makes the directory
\* and calls self._update(), a method the class does not have: whether the
\* call raises AttributeError.
tracker_init_raises == TRUE

\* latc_gui.py lines 286-319 for what is found at the file: the bar's new
\* value and whether the check is armed again.  A file that is not there
\* leaves the bar alone and arms the check again.
check_bar(found, bar) == IF found = Absent THEN bar ELSE found
check_rearms(found) == found = Absent \/ found < 100

InitGui ==
  /\ fn = "gui"
  /\ processing_mode \in {"fast", "scientific"}
  /\ original_exists \in BOOLEAN
  /\ output_exists \in BOOLEAN
  /\ script_found \in BOOLEAN
  /\ current_progress_file \in {"unset", "temp"}
  /\ env_progress_file = "unset"
  /\ gui_pc = "idle"
  /\ proc = "none"
  /\ progress_files = [p \in ProgressPaths |-> Absent]
  /\ progress_bar = 0
  /\ timer = FALSE
  /\ polls = 0
  /\ script_log = "none"
  /\ NoHybrid /\ NoGaps /\ NoPar
  /\ has_id = TRUE
  /\ df = <<>>
  /\ enforce_monotonicity = TRUE
  /\ pc = "call"
  /\ idx = 1
  /\ NoHistory
  /\ processed_batches = <<>>
  /\ result = NoResult
  /\ smoothed = NoResult
  /\ NoSvdOpts
  /\ NoSvdLocals
  /\ NoOther

\* What the GUI actions leave alone.
besideGui == <<callVars, pc, idx, processed_batches, result, smoothed, svdOpts,
               svdLocals, otherVars, history, hybridVars, gapVars, parVars>>

\* run_imputation_logic up to the return of run_script (lines 238-259 and
\* 515-555): nothing is launched when the original file is missing or the
\* user declines to overwrite the output; otherwise run_script passes the
\* monitor's file in LATC_PROGRESS_FILE when an earlier run has set
\* current_progress_file, and starts the script on a thread of its own.  When
\* the script is not found run_script returns and nothing is started.
GuiRunScript ==
  /\ fn = "gui" /\ gui_pc = "idle"
  /\ \E overwrite \in BOOLEAN :
       IF ~original_exists \/ (output_exists /\ ~overwrite)
         THEN /\ gui_pc' = "done"
              /\ UNCHANGED <<env_progress_file, proc>>
         ELSE /\ gui_pc' = "launched"
              /\ IF script_found
                   THEN /\ env_progress_file' = current_progress_file
                        /\ proc' = "started"
                   ELSE UNCHANGED <<env_progress_file, proc>>
  /\ UNCHANGED <<besideGui, processing_mode, original_exists, output_exists,
                 script_found, current_progress_file, progress_files, progress_bar,
                 timer, polls, script_log>>

\* Lines 261-284 and the first _check_progress: the bar is reset, the
\* monitor's file is set to the one in the temporary directory and removed if
\* it is there, and the file is checked for the first time.
GuiMonitorProgress ==
  /\ fn = "gui" /\ gui_pc = "launched"
  /\ current_progress_file' = "temp"
  /\ progress_files' = [progress_files EXCEPT !["temp"] = Absent]
  /\ progress_bar' = 0
  /\ timer' = TRUE
  /\ gui_pc' = "monitoring"
  /\ UNCHANGED <<besideGui, processing_mode, original_exists, output_exists,
                 script_found, env_progress_file, proc, polls, script_log>>

\* _check_progress run by the timer (lines 286-319): the bar takes the
\* file's percent; the check is armed again unless the percent is 100.  polls
\* counts the checks, up to MaxPolls.
CheckProgress ==
  /\ fn = "gui" /\ timer
  /\ progress_bar' = check_bar(progress_files[current_progress_file], progress_bar)
  /\ timer' = check_rearms(progress_files[current_progress_file])
  /\ polls' = IF polls < MaxPolls THEN polls + 1 ELSE polls
  /\ UNCHANGED <<besideGui, processing_mode, original_exists, output_exists,
                 script_found, current_progress_file, env_progress_file, gui_pc,
                 proc, progress_files, script_log>>

\* latc_simple.py main, lines 143-156: the file is there, the table is not
\* yet read, and the ProgressTracker is made: its constructor raises, and the
\* script ends with an error before it has written any progress.
FastScript ==
  /\ fn = "gui" /\ processing_mode = "fast" /\ proc = "started"
  /\ proc' = IF tracker_init_raises THEN "exit_failed" ELSE "tracking"
  /\ UNCHANGED <<besideGui, processing_mode, original_exists, output_exists,
                 script_found, current_progress_file, env_progress_file, gui_pc,
                 progress_files, progress_bar, timer, polls, script_log>>

\* latc_advanced.py main, lines 450-494: the table is read, imputed and
\* saved; no step writes a progress file.  Each step can fail (a table that
\* cannot be parsed, an output that cannot be written).
ScientificScript ==
  /\ fn = "gui" /\ processing_mode = "scientific"
  /\ proc \in {"started", "loaded", "imputed"}
  /\ \E ok \in BOOLEAN :
       proc' = IF ~ok THEN "exit_failed"
               ELSE IF proc = "started" THEN "loaded"
               ELSE IF proc = "loaded" THEN "imputed"
               ELSE "exit_ok"
  /\ UNCHANGED <<besideGui, processing_mode, original_exists, output_exists,
                 script_found, current_progress_file, env_progress_file, gui_pc,
                 progress_files, progress_bar, timer, polls, script_log>>

\* Lines 546-548 of run_script's thread: the exit code is logged.
TaskWait ==
  /\ fn = "gui" /\ proc \in {"exit_ok", "exit_failed"} /\ script_log = "none"
  /\ script_log' = IF proc = "exit_ok" THEN "SUCCESS" ELSE "ERROR"
  /\ UNCHANGED <<besideGui, processing_mode, original_exists, output_exists,
                 script_found, current_progress_file, env_progress_file, gui_pc,
                 proc, progress_files, progress_bar, timer, polls>>

NextGui ==
  \/ GuiRunScript
  \/ GuiMonitorProgress
  \/ CheckProgress
  \/ FastScript
  \/ ScientificScript
  \/ TaskWait

SpecGui == InitGui /\ [][NextGui]_vars

\* Tk's main loop runs the handler to its end and every timer callback that
\* is due, and the script and the thread waiting for it keep running.
SpecGuiFair ==
  /\ SpecGui
  /\ WF_vars(GuiMonitorProgress)
  /\ WF_vars(CheckProgress)
  /\ WF_vars(FastScript)
  /\ WF_vars(ScientificScript)
  /\ WF_vars(TaskWait)

\* ------------------------------------------------------------ properties
\* A meter's rows of a table, in table order, and their value matrices.
OfMeter(tbl, m) == SelectSeq(tbl, LAMBDA r : r.id = m)
InputOf(m) == MatrixOf(OfMeter(df, m))
OutputOf(m) == MatrixOf(OfMeter(result, m))
Cells(M) == {c \in (1..Len(M)) \X Cols : TRUE}
ObservedVals(m) ==
  {InputOf(m)[c[1]][c[2]] : c \in {c \in Cells(InputOf(m)) : ~IsNaN(InputOf(m)[c[1]][c[2]])}}

\* Observed: present and, where the Cleaner runs (the svd path), kept by it.
Observed(m, d, j) ==
  IF fn = "svd" THEN <<d, j>> \in mask_of(clean(InputOf(m)))
  ELSE ~IsNaN(InputOf(m)[d][j])

\* C1: with an 'id' column, the output of simple_latc_imputation and of
\* latc_svd_imputation holds the input value at every observed position,
\* whatever enforce_monotonicity and smoothing are.
C1_ObservedPreserved ==
  (pc = "returned" /\ has_id /\ fn \in {"simple", "svd"}) =>
     \A m \in Meters : \A c \in Cells(InputOf(m)) :
        Observed(m, c[1], c[2]) => OutputOf(m)[c[1]][c[2]] = InputOf(m)[c[1]][c[2]]

\* C2: two tables that hold the same rows for meter "A" and differ in the
\* other meters' rows get the same values for all of A's rows, from
\* simple_latc_imputation and from latc_svd_imputation.
C2_PerMeterIsolation ==
  (pc = "returned" /\ fn \in {"simple", "svd"}) =>
     OfMeter(result, "A") = OfMeter(other_result, "A")

\* The two calls returned, the other meters' rows came out different, and
\* meter "A" had a fully missing day to fill.
C2_Witness ==
  /\ pc = "returned" /\ fn = "svd"
  /\ OfMeter(result, "B") # OfMeter(other_result, "B")
  /\ \E d \in 1..NDays : \A j \in Cols : IsNaN(InputOf("A")[d][j])
  /\ ~AnyNaN(OutputOf("A"))

\* C3: with enforce_monotonicity on, every meter's output rows read as one
\* chronological series are non-decreasing at every pair of consecutive
\* positions, the last hour of a day and the first of the next included.
C3_FlattenedNonDecreasing ==
  (pc = "returned" /\ has_id /\ fn \in {"simple", "svd"} /\ enforce_monotonicity) =>
     \A m \in Meters :
        LET flat == ravel(OutputOf(m))
        IN \A k \in 1..(Len(flat) - 1) : ~Lt(flat[k + 1], flat[k])

EveryMeterHas(P(_)) ==
  \A m \in Meters : \E c \in Cells(InputOf(m)) : P(InputOf(m)[c[1]][c[2]])
IsPresent(v) == ~IsNaN(v)
IsPresentNonZero(v) == ~IsNaN(v) /\ v # 0

\* C4 (as stated): when every meter has at least one observed value, zero
\* included, the output of latc_svd_imputation has no missing value.
C4_NoMissingSvd ==
  (pc = "returned" /\ has_id /\ fn = "svd" /\ EveryMeterHas(IsPresent)) =>
     \A m \in Meters : ~AnyNaN(OutputOf(m))

\* C4 (amended): when every meter has at least one observed value other than
\* zero, the output of latc_svd_imputation has no missing value.
C4_NoMissingSvdNonZero ==
  (pc = "returned" /\ has_id /\ fn = "svd" /\ EveryMeterHas(IsPresentNonZero)) =>
     \A m \in Meters : ~AnyNaN(OutputOf(m))

\* latc_svd_imputation returned after refinement was allowed, for a meter
\* "A" with a non-zero reading, a zero reading and a fully missing day.
C4_Witness ==
  /\ pc = "returned" /\ has_id /\ fn = "svd" /\ max_iterations > 0
  /\ EveryMeterHas(IsPresentNonZero)
  /\ \E c \in Cells(InputOf("A")) : InputOf("A")[c[1]][c[2]] = 0
  /\ \E d \in 1..NDays : \A j \in Cols : IsNaN(InputOf("A")[d][j])
  /\ ~AnyNaN(OutputOf("A"))

C6_WithinObservedRange ==
  (pc = "returned" /\ has_id /\ fn = "simple") =>
     \A m \in Meters :
        ObservedVals(m) # {} =>
           \A c \in Cells(OutputOf(m)) :
              /\ SetMin(ObservedVals(m)) <= OutputOf(m)[c[1]][c[2]]
              /\ OutputOf(m)[c[1]][c[2]] <= SetMax(ObservedVals(m))

\* simple_latc_imputation returned and filled a gap of meter "A" with a value
\* strictly between its smallest and largest observed value, and a fully
\* missing day of "A" next to it.
C6_Witness ==
  /\ pc = "returned" /\ has_id /\ fn = "simple"
  /\ ObservedVals("A") # {}
  /\ \E c \in Cells(InputOf("A")) :
        /\ IsNaN(InputOf("A")[c[1]][c[2]])
        /\ SetMin(ObservedVals("A")) < OutputOf("A")[c[1]][c[2]]
        /\ OutputOf("A")[c[1]][c[2]] < SetMax(ObservedVals("A"))
  /\ \E d \in 1..NDays : \A j \in Cols : IsNaN(InputOf("A")[d][j])

\* C7: when one day of a meter is fully missing and its other days hold
\* observed values, all positive, simple_latc_imputation returns for that day
\* no zero and, at every hour, the final value of the previous day.
C7_FullyMissingDayCarriesForward ==
  (pc = "returned" /\ has_id /\ fn = "simple") =>
     \A d \in 1..NDays :
        ( /\ \A j \in Cols : IsNaN(InputOf("A")[d][j])
          /\ \A e \in (1..NDays) \ {d} :
                /\ \E j \in Cols : ~IsNaN(InputOf("A")[e][j])
                /\ \A j \in Cols : ~IsNaN(InputOf("A")[e][j]) => InputOf("A")[e][j] > 0 )
        => /\ \A j \in Cols : OutputOf("A")[d][j] # 0
           /\ d > 1 => \A j \in Cols : OutputOf("A")[d][j] = OutputOf("A")[d - 1][NCols]

\* C8: without an 'id' column simple_latc_imputation, latc_svd_imputation and
\* simple_latc_imputation_joblib end in an error and return no table.
C8_NoIdIsAnError ==
  (pc = "returned" /\ ~has_id) => result = NoResult

\* C9: smooth_imputed_data returns the original value at every position
\* where the original matrix is observed, for every method, with
\* preserve_monotonicity on or off.
C9_SmoothKeepsObserved ==
  (pc = "returned" /\ fn = "smooth") =>
     \A i \in 1..Len(original_matrix) : \A j \in 1..Len(original_matrix[i]) :
        ~IsNaN(original_matrix[i][j]) => smoothed_matrix[i][j] = original_matrix[i][j]

\* C10: smooth_time_series_numpy on the output of simple_latc_imputation
\* differs from that output at no position observed in the original table.
C10_SmootherFrame ==
  pc = "smoothed" =>
     LET filled == sort_values(result)
         original_df == merge_left(filled, df)
     IN \A k \in 1..Len(filled) : \A j \in Cols :
           ~IsNaN(original_df[k].vals[j]) => smoothed[k].vals[j] = filled[k].vals[j]

\* The matrix Phase 3 hands to the smoother (restored, clamped when asked)
\* for the meter _legacy_svd_imputation has just finished, and the rows it
\* returned for it.
JustPostProcessed == pc = "svd_loop" /\ has_id /\ idx > 1
PreSmoothing ==
  LET restored == restore_known(imputed_matrix, mask, original_matrix)
  IN IF enforce_monotonicity THEN MapRows(enforce_row, restored) ELSE restored
Returned == MatrixOf(processed_batches[idx - 1])
Max0(v) == IF IsNaN(v) THEN NaN ELSE IF v < 0 THEN 0 ELSE v

\* C11: with apply_smoothing on, the smoothed value latc_svd_imputation
\* returns at an imputed position is computed over the meter's flattened
\* cross-day series: with the moving average it is the centred mean taken
\* over the flattened series, adjacent days included.
C11_SmoothingOverFlattenedSeries ==
  (JustPostProcessed /\ apply_smoothing /\ smoothing_method = "moving_avg"
     /\ ~enforce_monotonicity /\ Len(original_matrix) > 1) =>
     LET flat == rolling_mean(ravel(PreSmoothing), smoothing_window)
         cross_day == reshape(flat, Len(original_matrix), NCols)
     IN \A c \in Cells(original_matrix) :
           IsNaN(original_matrix[c[1]][c[2]]) =>
              Returned[c[1]][c[2]] = Max0(cross_day[c[1]][c[2]])

\* The flattened series of meter m in the table the smoother was given, in
\* the original table aligned with it, and in the table it returned.
NonDecreasing(flat) == \A k \in 1..(Len(flat) - 1) : ~Lt(flat[k + 1], flat[k])
FilledFlat(m) == ravel(MatrixOf(OfMeter(sort_values(result), m)))
OriginalFlat(m) == ravel(MatrixOf(OfMeter(merge_left(sort_values(result), df), m)))
SmoothedFlat(m) == ravel(MatrixOf(OfMeter(smoothed, m)))
AgreesAtObserved(m) ==
  \A k \in 1..Len(FilledFlat(m)) :
     ~IsNaN(OriginalFlat(m)[k]) => FilledFlat(m)[k] = OriginalFlat(m)[k]

\* C12: for every meter whose flattened series is at least window_size long,
\* when the filled series given to smooth_time_series_numpy is non-decreasing
\* and agrees with the original at the observed positions, the series it
\* returns is non-decreasing at every pair of consecutive positions.
C12_SmootherOutputNonDecreasing ==
  pc = "smoothed" =>
     \A m \in Meters :
        ( /\ Len(FilledFlat(m)) >= smoothing_window
          /\ NonDecreasing(FilledFlat(m))
          /\ AgreesAtObserved(m) )
        => NonDecreasing(SmoothedFlat(m))

\* C13: when smoothing raises for a row of smooth_imputed_data, that row of
\* the returned matrix is the imputed row it was given; every other row holds
\* what the loop body makes of it without raising, and the call returns a
\* matrix of all rows.
C13_RaisedRowKeepsImputed ==
  (fn = "smooth" /\ pc = "returned") =>
     /\ Len(smoothed_matrix) = Len(imputed_matrix)
     /\ \A i \in 1..Len(imputed_matrix) :
           IF i \in raised_rows
             THEN smoothed_matrix[i] = imputed_matrix[i]
             ELSE \E k \in KernelChoices \ {"raise"} :
                    smoothed_matrix[i] =
                      smooth_row(imputed_matrix[i], original_matrix[i], smoothing_method,
                                 smoothing_window, preserve_monotonicity, k)

\* smooth_imputed_data returned after the library kernel raised for the first
\* row only; the second row came back smoothed, different from its imputed
\* values.
C13_Witness ==
  /\ fn = "smooth" /\ pc = "returned"
  /\ raised_rows = {1}
  /\ smoothing_method \in Methods
  /\ smoothed_matrix[2] # imputed_matrix[2]
  /\ smoothed_matrix[1] = imputed_matrix[1]
  /\ \E j \in 1..SmoothCols : IsNaN(original_matrix[1][j])

\* The missing set of a matrix.
MissingSet(M) == {c \in Cells(M) : IsNaN(M[c[1]][c[2]])}
\* The cleaning step has run once on original_matrix.
Cleaned == fn = "clean" /\ pc = "cleaned"

\* C14: the missing set after the cleaning step (zero, spike and drop
\* filters) contains the missing set of the matrix the step was given.
C14_CleaningOnlyAddsMissing ==
  Cleaned => MissingSet(original_matrix) \subseteq MissingSet(consumption_matrix)

\* The cleaning step was given a matrix with a gap and reclassified a
\* positive reading of it as missing.
C14_Witness ==
  /\ Cleaned
  /\ MissingSet(original_matrix) # {}
  /\ \E c \in Cells(original_matrix) :
        original_matrix[c[1]][c[2]] > 0 /\ c \in MissingSet(consumption_matrix)

\* C15: applying the cleaning step to its own output changes nothing: the
\* missing set after two applications is the missing set after one.
C15_CleaningIdempotent ==
  (fn = "clean" /\ pc = "cleaned_twice") =>
     MissingSet(consumption_matrix) = Cells(original_matrix) \ mask

\* The observed value immediately preceding position k of a series, NaN
\* when there is none.
PrecedingObserved(flat, k) ==
  LET seen == {i \in 1..(k - 1) : ~IsNaN(flat[i])}
  IN IF seen = {} THEN NaN ELSE flat[SetMax(seen)]

\* C16: the drop filter reclassifies a value as missing exactly when it is
\* lower than the immediately preceding observed value of the meter's series
\* and the ratio current / previous is at most 0.1; a decrease with a ratio
\* above 0.1 stays in place.
C16_DropFilterRule ==
  [][(fn = "clean" /\ pc = "spikes_done" /\ pc' = "cleaned") =>
       LET before == ravel(consumption_matrix)
           after == ravel(consumption_matrix')
       IN \A k \in 1..Len(before) :
             ~IsNaN(before[k]) =>
                LET prev == PrecedingObserved(before, k)
                IN IsNaN(after[k]) <=> (Lt(before[k], prev) /\ 10 * before[k] <= prev)]_vars

\* C17: the monotonicity enforcement pass applied twice gives what one
\* application gives, for every filled matrix.
C17_EnforceIdempotent ==
  (fn = "enforce" /\ pc = "enforced_twice") => imputed_matrix = prev_imputed

\* The pass ran twice on a matrix with a row falling twice in a row; the
\* first application changed it and the second changed nothing.
C17_Witness ==
  /\ fn = "enforce" /\ pc = "enforced_twice"
  /\ \E i \in 1..Len(original_matrix) :
        /\ original_matrix[i][2] < original_matrix[i][1]
        /\ original_matrix[i][3] < original_matrix[i][2]
        /\ imputed_matrix[i] # original_matrix[i]
  /\ imputed_matrix = prev_imputed

\* C18: no value of the table latc_svd_imputation returns is negative, for
\* every input, negative observed readings included, and every setting of
\* the options.
C18_NoNegativeOutput ==
  (fn = "svd" /\ pc = "returned") =>
     \A k \in 1..Len(result) : \A j \in Cols : ~Lt(result[k].vals[j], 0)

\* latc_svd_imputation returned, after at least one refinement pass was
\* allowed, a table for an input in which meter "A" has a negative observed
\* reading; the output holds 0 at that position.
C18_Witness ==
  /\ fn = "svd" /\ pc = "returned" /\ has_id /\ max_iterations > 0
  /\ \E c \in Cells(InputOf("A")) :
        /\ Lt(InputOf("A")[c[1]][c[2]], 0)
        /\ OutputOf("A")[c[1]][c[2]] = 0

\* C19: for every input and every max_iterations >= 0, the refinement loop
\* of _legacy_svd_imputation makes at most max_iterations decompositions and
\* always ends, and it is left for Phase 3 only.
C19_RefinementBoundedAndEnds ==
  /\ [](fn = "svd" => Len(svds_calls) <= max_iterations)
  /\ [][pc = "svd_iter" => pc' \in {"svd_iter", "svd_post"}]_vars
  /\ (pc = "svd_iter") ~> (pc = "svd_post")

\* The loop ended after max_iterations decompositions, none of which raised
\* or met the convergence test, and Phase 3 is about to run.
C19_Witness ==
  /\ fn = "svd" /\ pc = "svd_post"
  /\ max_iterations = MaxIter
  /\ Len(svds_calls) = max_iterations
  /\ iteration = max_iterations

\* The last decomposition of the meter just finished raised.
DecompositionFailed ==
  svds_calls # <<>> /\ svds_calls[Len(svds_calls)] = "raised"

\* C20: when the decomposition fails at some pass for a meter, refinement
\* stops for that meter (the failed call is its last), the estimate left by
\* the last successful pass, or the Phase 1 estimate when there is none, goes
\* into post-processing, and latc_svd_imputation still returns a table that
\* holds that meter and all the others.
C20_FailedDecompositionKeepsEstimate ==
  /\ \A t \in 1..(Len(svds_calls) - 1) : svds_calls[t] = "ok"
  /\ (fn = "svd" /\ pc = "svd_post" /\ DecompositionFailed) =>
        /\ Len(svds_calls) = iteration + 1
        /\ imputed_matrix = (IF iteration = 0 THEN initial_fill(consumption_matrix)
                                               ELSE prev_imputed)
  /\ (JustPostProcessed /\ DecompositionFailed) =>
        \E ks \in KernelRuns(Len(imputed_matrix),
                               apply_smoothing /\ uses_kernel(NCols, smoothing_method,
                                                              smoothing_window)) :
           Returned = post_process(imputed_matrix, mask, original_matrix,
                                   enforce_monotonicity, apply_smoothing,
                                   smoothing_method, smoothing_window, ks)
  /\ (fn = "svd" /\ pc = "returned" /\ has_id) =>
        /\ Len(result) = Len(df)
        /\ \A m \in Meters :
              /\ Len(OfMeter(result, m)) = Len(OfMeter(df, m))
              /\ \A q \in 1..Len(OfMeter(df, m)) :
                    OfMeter(result, m)[q].data = OfMeter(df, m)[q].data

\* The decomposition of meter "A" raised after a successful pass that had
\* changed the estimate, and _legacy_svd_imputation returned A's rows, post-
\* processed from that estimate.
C20_Witness ==
  /\ JustPostProcessed
  /\ meter_df[1].id = "A"
  /\ DecompositionFailed /\ Len(svds_calls) = 2
  /\ imputed_matrix = prev_imputed
  /\ imputed_matrix # initial_fill(consumption_matrix)
  /\ Len(Returned) = NDays

MaximalRuns(row) ==
  {r \in (1..Len(row)) \X (1..Len(row)) :
     /\ r[1] <= r[2]
     /\ \A j \in r[1]..r[2] : IsNaN(row[j])
     /\ r[1] = 1 \/ ~IsNaN(row[r[1] - 1])
     /\ r[2] = Len(row) \/ ~IsNaN(row[r[2] + 1])}
\* How often g occurs in a list.
Occurrences(list, g) == Cardinality({k \in 1..Len(list) : list[k] = g})

\* C22: the gap scan of latc_hybrid_imputation records every maximal run of
\* missing values of a row, a run that reaches the row's last hour included,
\* exactly once: among the small gaps when its length is at most
\* gap_threshold_hours, among the large gaps otherwise.
C22_EveryRunRecordedOnce ==
  (fn = "hybrid" /\ pc = "hybrid_scanned") =>
     \A i \in 1..Len(df) : \A r \in MaximalRuns(df[i].vals) :
        LET g == <<i, r[1], r[2] + 1>>
            small == r[2] - r[1] + 1 <= gap_threshold_hours
        IN /\ Occurrences(small_gaps, g) = (IF small THEN 1 ELSE 0)
           /\ Occurrences(large_gaps, g) = (IF small THEN 0 ELSE 1)

\* The lengths of the maximal runs of missing values of a row.
RunLength(r) == r[2] - r[1] + 1
LongestRun(row) ==
  IF MaximalRuns(row) = {} THEN 0 ELSE SetMax({RunLength(r) : r \in MaximalRuns(row)})
MissingCount(row) == Cardinality({j \in 1..Len(row) : IsNaN(row[j])})
\* The maximal runs of a row ordered by their first column.
RunsBefore(row, r) == Cardinality({q \in MaximalRuns(row) : q[1] < r[1]})

\* C23: for every row analyze_gaps has scanned, the gaps are the maximal
\* runs of missing values of that row: num_gaps is their number, their
\* lengths sum to missing_count, and max_gap_size is the length of the longest
\* (0 for a row without a missing value).
C23_GapsAreMaximalRuns ==
  fn = "analyze_gaps" =>
     /\ \A k \in 1..Len(meter_stats) :
           LET row == df[k].vals
           IN /\ meter_stats[k].num_gaps = Cardinality(MaximalRuns(row))
              /\ meter_stats[k].missing_count = MissingCount(row)
              /\ meter_stats[k].max_gap_size = LongestRun(row)
     /\ (pc = "gaps_loop" /\ idx > 1) =>
           LET row == df[idx - 1].vals
           IN /\ Len(gaps) = Cardinality(MaximalRuns(row))
              /\ \A r \in MaximalRuns(row) : gaps[RunsBefore(row, r) + 1] = RunLength(r)
              /\ SeqSum(gaps) = meter_stats[idx - 1].missing_count

\* analyze_gaps has scanned a row with two runs, the second reaching the end
\* of the row.
C23_Witness ==
  /\ fn = "analyze_gaps" /\ pc = "gaps_loop" /\ idx > 1
  /\ Len(gaps) = 2
  /\ IsNaN(df[idx - 1].vals[GapCols])
  /\ meter_stats[idx - 1].max_gap_size = 2

\* C24: a run of missing values that goes from the last hours of one day
\* into the first hours of the same meter's next day is reported by
\* analyze_gaps as one gap of the length of the whole run: the gaps reported
\* for a meter are the maximal runs of its flattened series.
C24_CrossDayRunIsOneGap ==
  (fn = "analyze_gaps" /\ pc = "returned") =>
     \A m \in Meters :
        LET rows == {k \in 1..Len(df) : df[k].id = m}
            flat == ravel(MatrixOf(OfMeter(df, m)))
            RECURSIVE total(_)
            total(S) == IF S = {} THEN 0
                        ELSE LET k == CHOOSE k \in S : TRUE
                             IN result[k].num_gaps + total(S \ {k})
        IN rows # {} =>
             /\ total(rows) = Cardinality(MaximalRuns(flat))
             /\ SetMax({result[k].max_gap_size : k \in rows}) = LongestRun(flat)

\* C25: for every table with an 'id' column and every worker count,
\* simple_latc_imputation_joblib and simple_latc_imputation_optimized return
\* the table the sequential simple_latc_imputation returns: the same rows in
\* the same order with the same values, whatever order the workers finish in.
C25_ParallelEqualsSequential ==
  (pc = "returned" /\ has_id /\ fn \in {"joblib", "optimized"})
    => result = simple_latc_imputation(df, enforce_monotonicity)

\* C26: within one call of simple_latc_imputation, latc_svd_imputation or
\* simple_latc_imputation_optimized that is given a progress callback, every
\* percent the callback is told lies in 0..100, and no percent is lower than
\* the one told before it.
C26_ProgressNonDecreasing ==
  progress_callback =>
    /\ \A k \in 1..Len(progress_calls) : progress_calls[k] \in 0..100
    /\ \A k \in 1..(Len(progress_calls) - 1) :
          progress_calls[k] <= progress_calls[k + 1]

\* latc_svd_imputation has gone through more than a hundred meters and has
\* told its callback a percent more than once.
C26_Witness ==
  /\ fn = "svd" /\ has_id /\ progress_callback
  /\ pc = "returned"
  /\ Len(progress_calls) >= 2
  /\ progress_calls[1] < progress_calls[Len(progress_calls)]

\* C27: in latc_svd_imputation with apply_smoothing on, a position whose
\* observed value the cleaning reclassified as missing (a zero, a spike, a
\* drop) is treated by the smoother as imputed: the value returned there is
\* the one Phase 3 gives when the smoother takes the cleaned matrix as the
\* original, so the invalidated reading is never written back.
C27_CleanedPositionIsSmoothed ==
  (JustPostProcessed /\ apply_smoothing) =>
     \E ks \in KernelRuns(Len(imputed_matrix),
                          uses_kernel(NCols, smoothing_method, smoothing_window)) :
        LET expected ==
              clamp_nonneg(smooth_imputed_data(PreSmoothing, consumption_matrix,
                                               smoothing_method, smoothing_window,
                                               enforce_monotonicity, ks))
        IN \A c \in Cells(original_matrix) :
              (~IsNaN(original_matrix[c[1]][c[2]]) /\ c \notin mask) =>
                 Returned[c[1]][c[2]] = expected[c[1]][c[2]]

\* C28: during the refinement of _legacy_svd_imputation an iteration changes
\* only positions that are missing after the cleaning: every observed
\* position the cleaning left alone holds its input value in the estimate
\* when refinement starts and at the end of every iteration.
C28_RefinementKeepsObserved ==
  (fn = "svd" /\ pc \in {"svd_iter", "svd_post"}) =>
     /\ mask = mask_of(consumption_matrix)
     /\ \A c \in mask :
           /\ ~IsNaN(original_matrix[c[1]][c[2]])
           /\ imputed_matrix[c[1]][c[2]] = original_matrix[c[1]][c[2]]

\* A pass of the refinement has changed the estimate of a meter that has
\* observed readings the cleaning kept and one it invalidated.
C28_Witness ==
  /\ fn = "svd" /\ pc = "svd_iter" /\ iteration >= 1
  /\ svds_calls # <<>> /\ svds_calls[Len(svds_calls)] = "ok"
  /\ mask # {}
  /\ \E c \in Cells(original_matrix) :
        ~IsNaN(original_matrix[c[1]][c[2]]) /\ c \notin mask
  /\ imputed_matrix # initial_fill(consumption_matrix)

\* C29: smooth_imputed_data called with a method name other than
\* 'moving_avg', 'spline' and 'savgol' raises nothing to its caller (the
\* ValueError of every row that is processed is caught in the loop) and
\* returns a matrix equal to the imputed matrix it was given.
C29_UnknownMethodReturnsImputed ==
  (fn = "smooth" /\ smoothing_method \notin Methods) =>
     /\ raised_rows \subseteq
           {i \in 1..Len(original_matrix) :
              \E j \in 1..SmoothCols : IsNaN(original_matrix[i][j])}
     /\ pc \in {"call", "smooth_loop", "returned"}
     /\ pc = "returned" =>
           /\ \A i \in 1..Len(imputed_matrix) : smoothed_matrix[i] = imputed_matrix[i]
           /\ Len(smoothed_matrix) = Len(imputed_matrix)
           /\ raised_rows =
                {i \in 1..Len(original_matrix) :
                   \E j \in 1..SmoothCols : IsNaN(original_matrix[i][j])}

\* smooth_imputed_data returned from a call with an unknown method; the
\* ValueError was raised and caught for a row whose observed readings differ
\* from the imputed values at the same positions.
C29_Witness ==
  /\ fn = "smooth" /\ pc = "returned"
  /\ smoothing_method \notin Methods
  /\ preserve_monotonicity
  /\ \E i \in raised_rows : \E j \in 1..SmoothCols :
        /\ ~IsNaN(original_matrix[i][j])
        /\ original_matrix[i][j] # imputed_matrix[i][j]

\* C30: after run_imputation_logic has launched a processing script, once
\* the script has finished successfully the progress monitor eventually
\* observes percent 100 and stops polling, in every interleaving of the
\* script's steps with the monitor's checks.
C30_MonitorStopsAfterSuccess ==
  (fn = "gui" /\ proc = "exit_ok") ~> (gui_pc = "monitoring" /\ ~timer /\ progress_bar = 100)

====
